---------------------------- MODULE Spec2Model ----------------------------
(***************************************************************************)
(* WhatsApp webhook relay: the POST /webhook pipeline of the repository's  *)
(* five server sources, modelled side by side.                             *)
(*                                                                         *)
(*   "indexA"     src/unnamed/part_000, lines   1-426 (auto-response)      *)
(*   "indexB"     src/unnamed/part_000, lines 427-752 (errors re-thrown)   *)
(*   "autonomous" src/unnamed/part_001, lines   1-337 (Edge Function only) *)
(*   "fallback"   src/unnamed/part_001, lines 339-820 (fixed fallback)     *)
(*   "webhook"    src/webhook.ts                 (logged fallback)         *)
(*                                                                         *)
(* A JavaScript string is a sequence of one-character strings, so that     *)
(* toLowerCase, includes, template literals and new URL are computed as    *)
(* the code computes them.                                                 *)
(***************************************************************************)
EXTENDS Integers, Sequences, FiniteSets, TLC

(***************************************************************************)
(* Strings                                                                 *)
(***************************************************************************)

Uppers ==
    << "A", "B", "C", "D", "E", "F", "G", "H", "I", "J", "K", "L", "M", "N", "O", "P",
       "Q", "R", "S", "T", "U", "V", "W", "X", "Y", "Z", "É", "È" >>
Lowers ==
    << "a", "b", "c", "d", "e", "f", "g", "h", "i", "j", "k", "l", "m", "n", "o", "p",
       "q", "r", "s", "t", "u", "v", "w", "x", "y", "z", "é", "è" >>

\* the lower-case form of each upper-case character
LowerOf == [c \in {Uppers[i] : i \in 1..Len(Uppers)} |->
               Lowers[CHOOSE i \in 1..Len(Uppers) : Uppers[i] = c]]

\* String.prototype.toLowerCase, one character
LowerChar(c) == IF c \in DOMAIN LowerOf THEN LowerOf[c] ELSE c

\* String.prototype.toLowerCase
toLowerCase(s) == [i \in 1..Len(s) |-> LowerChar(s[i])]

\* String.prototype.includes: kw occurs in s as a contiguous substring
includes(s, kw) ==
    \E i \in 0..(Len(s) - Len(kw)) : \A j \in 1..Len(kw) : s[i + j] = kw[j]

\* Array.prototype.some(keyword => s.includes(keyword))
someIncluded(kws, s) == \E j \in 1..Len(kws) : includes(s, kws[j])

\* String.prototype.startsWith
startsWith(s, p) == Len(p) <= Len(s) /\ \A j \in 1..Len(p) : s[j] = p[j]

(***************************************************************************)
(* Classifier                                                              *)
(***************************************************************************)

TRIGGER_KEYWORDS_CLIENT ==
    << <<"s", "u", "p", "p", "o", "r", "t">>,
       <<"h", "e", "l", "p">>,
       <<"c", "u", "s", "t", "o", "m", "e", "r", " ", "s", "e", "r", "v", "i", "c", "e">>,
       <<"a", "s", "s", "i", "s", "t", "a", "n", "c", "e">>,
       <<"p", "r", "o", "b", "l", "e", "m">>,
       <<"i", "s", "s", "u", "e">>,
       <<"c", "o", "m", "p", "l", "a", "i", "n", "t">>,
       <<"s", "e", "r", "v", "i", "c", "e", " ", "c", "l", "i", "e", "n", "t">>,
       <<"a", "i", "d", "e">>,
       <<"p", "r", "o", "b", "l", "è", "m", "e">> >>

TRIGGER_KEYWORDS_EDUCATION ==
    << <<"l", "e", "a", "r", "n">>,
       <<"s", "t", "u", "d", "y">>,
       <<"c", "o", "u", "r", "s", "e">>,
       <<"e", "d", "u", "c", "a", "t", "i", "o", "n">>,
       <<"s", "c", "h", "o", "o", "l">>,
       <<"h", "o", "m", "e", "w", "o", "r", "k">>,
       <<"a", "s", "s", "i", "g", "n", "m", "e", "n", "t">>,
       <<"q", "u", "e", "s", "t", "i", "o", "n">>,
       <<"a", "p", "p", "r", "e", "n", "d", "r", "e">>,
       <<"é", "t", "u", "d", "i", "e", "r">>,
       <<"c", "o", "u", "r", "s">>,
       <<"é", "d", "u", "c", "a", "t", "i", "o", "n">>,
       <<"é", "c", "o", "l", "e">>,
       <<"d", "e", "v", "o", "i", "r">>,
       <<"e", "x", "e", "r", "c", "i", "c", "e">> >>

TRIGGER_KEYWORDS_QUIZ ==
    << <<"q", "u", "i", "z">>,
       <<"g", "a", "m", "e">>,
       <<"t", "e", "s", "t">>,
       <<"p", "l", "a", "y">>,
       <<"c", "h", "a", "l", "l", "e", "n", "g", "e">>,
       <<"q", "u", "e", "s", "t", "i", "o", "n">>,
       <<"a", "n", "s", "w", "e", "r">>,
       <<"j", "e", "u">>,
       <<"d", "é", "f", "i">>,
       <<"r", "é", "p", "o", "n", "s", "e">>,
       <<"q", "u", "e", "s", "t", "i", "o", "n", "n", "a", "i", "r", "e">> >>

quizKeywords ==
    << <<"q", "u", "i", "z">>,
       <<"g", "a", "m", "e">>,
       <<"t", "e", "s", "t">>,
       <<"p", "l", "a", "y">>,
       <<"c", "h", "a", "l", "l", "e", "n", "g", "e">>,
       <<"j", "e", "u">>,
       <<"d", "é", "f", "i">> >>

educationKeywords ==
    << <<"l", "e", "a", "r", "n">>,
       <<"s", "t", "u", "d", "y">>,
       <<"h", "o", "m", "e", "w", "o", "r", "k">>,
       <<"a", "p", "p", "r", "e", "n", "d", "r", "e">>,
       <<"é", "t", "u", "d", "i", "e", "r">>,
       <<"d", "e", "v", "o", "i", "r", "s">> >>

\* determineChatbotType of part_000 matching the text as typed
determineChatbotTypeCaseSensitive(message) ==
    IF someIncluded(TRIGGER_KEYWORDS_EDUCATION, message) THEN "education"
    ELSE IF someIncluded(TRIGGER_KEYWORDS_QUIZ, message) THEN "quiz"
    ELSE "client"

\* determineChatbotType of part_000: education keywords are tested first
determineChatbotType(message) ==
    LET lowerMessage == toLowerCase(message) IN
    IF someIncluded(TRIGGER_KEYWORDS_EDUCATION, lowerMessage) THEN "education"
    ELSE IF someIncluded(TRIGGER_KEYWORDS_QUIZ, lowerMessage) THEN "quiz"
    ELSE "client"

\* extractMessageContent of webhook.ts; an absent or empty caption or body is
\* falsy, so `x || d` yields d
extractMessageContent(message) ==
    CASE message.type = "text" -> IF message.hasText THEN message.body ELSE <<>>
      [] message.type = "image" ->
            IF message.hasMedia /\ message.caption # <<>> THEN message.caption
            ELSE <<"[", "I", "m", "a", "g", "e", "]">>
      [] message.type = "video" ->
            IF message.hasMedia /\ message.caption # <<>> THEN message.caption
            ELSE <<"[", "V", "i", "d", "e", "o", "]">>
      [] message.type = "document" ->
            IF message.hasMedia /\ message.caption # <<>> THEN message.caption
            ELSE <<"[", "D", "o", "c", "u", "m", "e", "n", "t", "]">>
      [] message.type = "audio" -> <<"[", "A", "u", "d", "i", "o", "]">>
      [] OTHER -> <<"[", "U", "n", "k", "n", "o", "w", "n", " ", "m", "e", "s", "s", "a", "g", "e", " ",
                    "t", "y", "p", "e", "]">>

\* the classifier of webhook.ts with its two tests in the other order
determineChatbotTypeWEducationFirst(message) ==
    LET lowerContent == toLowerCase(extractMessageContent(message)) IN
    IF someIncluded(educationKeywords, lowerContent) THEN "education"
    ELSE IF someIncluded(quizKeywords, lowerContent) THEN "quiz"
    ELSE "customer-service"

\* determineChatbotType of webhook.ts: quiz keywords are tested first
determineChatbotTypeW(message) ==
    LET lowerContent == toLowerCase(extractMessageContent(message)) IN
    IF someIncluded(quizKeywords, lowerContent) THEN "quiz"
    ELSE IF someIncluded(educationKeywords, lowerContent) THEN "education"
    ELSE "customer-service"

(***************************************************************************)
(* URLs                                                                    *)
(***************************************************************************)

lit_schemeSep ==
    << ":", "/", "/" >>
lit_undefined ==
    << "u", "n", "d", "e", "f", "i", "n", "e", "d" >>
lit_apiChatbot ==
    << "/", "a", "p", "i", "/", "c", "h", "a", "t", "b", "o", "t", "/" >>
lit_apiWhatsappStatus ==
    << "/", "a", "p", "i", "/", "w", "h", "a", "t", "s", "a", "p", "p", "/", "s", "t",
       "a", "t", "u", "s" >>
lit_apiWebhook ==
    << "/", "a", "p", "i", "/", "w", "e", "b", "h", "o", "o", "k", "/" >>
lit_apiWebhookStatus ==
    << "/", "a", "p", "i", "/", "w", "e", "b", "h", "o", "o", "k", "/", "s", "t", "a",
       "t", "u", "s" >>
lit_fnChatbot ==
    << "/", "f", "u", "n", "c", "t", "i", "o", "n", "s", "/", "v", "1", "/", "a", "p",
       "i", "-", "c", "h", "a", "t", "b", "o", "t" >>
lit_fnStatus ==
    << "/", "f", "u", "n", "c", "t", "i", "o", "n", "s", "/", "v", "1", "/", "s", "t",
       "a", "t", "u", "s", "-", "h", "a", "n", "d", "l", "e", "r" >>
lit_defaultBolt ==
    << "h", "t", "t", "p", "s", ":", "/", "/", "y", "o", "u", "r", "-", "b", "o", "l",
       "t", "-", "a", "p", "p", ".", "c", "o", "m" >>
lit_graph19 ==
    << "h", "t", "t", "p", "s", ":", "/", "/", "g", "r", "a", "p", "h", ".", "f", "a",
       "c", "e", "b", "o", "o", "k", ".", "c", "o", "m", "/", "v", "1", "9", ".", "0",
       "/" >>
lit_graph18 ==
    << "h", "t", "t", "p", "s", ":", "/", "/", "g", "r", "a", "p", "h", ".", "f", "a",
       "c", "e", "b", "o", "o", "k", ".", "c", "o", "m", "/", "v", "1", "8", ".", "0",
       "/" >>
lit_messages ==
    << "/", "m", "e", "s", "s", "a", "g", "e", "s" >>

\* the characters of a chatbot type, as interpolated into a URL
typeChars(t) ==
    CASE t = "client" -> <<"c", "l", "i", "e", "n", "t">>
      [] t = "education" -> <<"e", "d", "u", "c", "a", "t", "i", "o", "n">>
      [] t = "quiz" -> <<"q", "u", "i", "z">>
      [] OTHER -> <<"c", "u", "s", "t", "o", "m", "e", "r", "-", "s", "e", "r", "v", "i", "c", "e">>

\* a string axios and new URL can parse as an absolute URL
isAbsoluteURL(u) ==
    \E i \in 2..Len(u) :
        /\ i + 2 <= Len(u)
        /\ SubSeq(u, i, i + 2) = lit_schemeSep
        /\ \A j \in 1..(i - 1) : u[j] # "/"

\* scheme://host[:port] of an absolute URL
origin(u) ==
    LET s == CHOOSE i \in 2..Len(u) :
                 /\ i + 2 <= Len(u)
                 /\ SubSeq(u, i, i + 2) = lit_schemeSep
                 /\ \A j \in 1..(i - 1) : u[j] # "/"
        slashes == {j \in (s + 3)..Len(u) : u[j] = "/"}
    IN  IF slashes = {} THEN u
        ELSE SubSeq(u, 1, (CHOOSE j \in slashes : \A j2 \in slashes : j <= j2) - 1)

\* new URL(path, base).toString() for a path that starts with "/": the path
\* replaces whatever path the base has
newURL(path, base) == origin(base) \o path

\* the local development check of part_000
isLocalDevelopmentURL(baseUrl) ==
    \/ includes(baseUrl, <<"l", "o", "c", "a", "l", "-", "c", "r", "e", "d", "e", "n", "t", "i", "a", "l",
                            "l", "e", "s", "s", ".", "w", "e", "b", "c", "o", "n", "t", "a", "i", "n",
                            "e", "r", "-", "a", "p", "i", ".", "i", "o">>)
    \/ includes(baseUrl, <<"l", "o", "c", "a", "l", "h", "o", "s", "t">>)
    \/ includes(baseUrl, <<"1", "2", "7", ".", "0", ".", "0", ".", "1">>)

(***************************************************************************)
(* Inputs: configuration, request bodies, outcomes of outbound calls       *)
(***************************************************************************)

txt_quizHelp ==
    << "I", " ", "n", "e", "e", "d", " ", "h", "e", "l", "p", " ", "w", "i", "t", "h",
       " ", "a", " ", "q", "u", "i", "z" >>
txt_hello ==
    << "H", "e", "l", "l", "o" >>
txt_myHomework ==
    << "M", "y", " ", "h", "o", "m", "e", "w", "o", "r", "k" >>
tenant1 ==
    << "1", "2", "3", "4", "5", "6", "7", "8", "9", "0" >>
tenant2 ==
    << "9", "8", "7", "6", "5", "4", "3", "2", "1", "0" >>
metaPhoneNumberId ==
    << "5", "5", "5", "0", "0", "0", "1", "1", "1", "1" >>
url_bolt ==
    << "h", "t", "t", "p", "s", ":", "/", "/", "b", "o", "l", "t", ".", "e", "x", "a",
       "m", "p", "l", "e", ".", "c", "o", "m" >>

\* a value that is undefined, or the empty string: both are falsy
Absent == <<>>

MaxEntries == 2
MaxChanges == 2
MaxEvents == 3

Variants == {"indexA", "indexB", "autonomous", "fallback", "webhook"}

\* the environment a variant reads; META_ACCESS_TOKEN is read by indexA and
\* fallback only, and is held at "set" for the variants that never read it
Envs(v) ==
    LET \* process.env.BOLT_WEBHOOK_ENDPOINT: unset, a deployed host, a local host
        BaseUrls ==
            {Absent, url_bolt,
             <<"h", "t", "t", "p", ":", "/", "/", "l", "o", "c", "a", "l", "h", "o", "s", "t", ":", "3", "0", "0", "0">>}
    IN
    [ BOLT_WEBHOOK_ENDPOINT : BaseUrls,
      META_ACCESS_TOKEN : IF v \in {"indexA", "fallback"} THEN BOOLEAN ELSE {TRUE},
      META_PHONE_NUMBER_ID : {metaPhoneNumberId} ]

msgQuiz ==
    [ id |-> "wamid.1", from |-> "+221123456789", timestamp |-> "1700000001",
      type |-> "text", hasText |-> TRUE, body |-> txt_quizHelp,
      hasMedia |-> FALSE, mediaId |-> "", mimeType |-> "", caption |-> Absent ]

msgHello ==
    [ id |-> "wamid.2", from |-> "+221700000000", timestamp |-> "1700000002",
      type |-> "text", hasText |-> TRUE, body |-> txt_hello,
      hasMedia |-> FALSE, mediaId |-> "", mimeType |-> "", caption |-> Absent ]

msgImage ==
    [ id |-> "wamid.3", from |-> "+221123456789", timestamp |-> "1700000003",
      type |-> "image", hasText |-> FALSE, body |-> Absent,
      hasMedia |-> TRUE, mediaId |-> "media.1", mimeType |-> "image/jpeg",
      caption |-> txt_myHomework ]

stDelivered ==
    [ id |-> "wamid.8", status |-> "delivered", timestamp |-> "1700000008",
      recipient_id |-> "+221123456789" ]

stFailed ==
    [ id |-> "wamid.9", status |-> "failed", timestamp |-> "1700000009",
      recipient_id |-> "+221700000000" ]

\* a Change: hasValue, hasStatuses and hasMessages tell an absent member from
\* an empty one; phone_number_id is Absent when value.metadata carries none
Change(field, phone, hasSt, sts, hasMs, ms) ==
    [ field |-> field, hasValue |-> TRUE, phone_number_id |-> phone,
      hasStatuses |-> hasSt, statuses |-> sts, hasMessages |-> hasMs, messages |-> ms ]

RECURSIVE SumEvents(_)
SumEvents(changes) ==
    IF changes = <<>> THEN 0
    ELSE Len(Head(changes).statuses) + Len(Head(changes).messages) + SumEvents(Tail(changes))

\* the sequences of at most n elements of S
RECURSIVE SeqsUpTo(_, _)
SeqsUpTo(S, n) ==
    IF n = 0 THEN {<<>>}
    ELSE LET shorter == SeqsUpTo(S, n - 1)
         IN  shorter \cup {Append(s, x) : s \in {t \in shorter : Len(t) = n - 1}, x \in S}

\* the ways of cutting the non-empty sequence f into n non-empty consecutive
\* entries
RECURSIVE Splits(_, _)
Splits(f, n) ==
    IF n = 1 THEN {<<f>>}
    ELSE UNION { { <<SubSeq(f, 1, i)>> \o rest :
                     rest \in Splits(SubSeq(f, i + 1, Len(f)), n - 1) } :
                 i \in 1..(Len(f) - n + 1) }

\* body.entry: no entry, one entry without changes, or at most MaxEntries
\* entries that hold at least one change each, at most MaxChanges changes
\* and MaxEvents statuses and messages between them
EntryLists(changeSet) ==
    {<<>>, << <<>> >>} \cup
    UNION { Splits(f, n) :
            f \in {g \in SeqsUpTo(changeSet, MaxChanges) :
                      g # <<>> /\ SumEvents(g) <= MaxEvents},
            n \in 1..MaxEntries }

\* the request bodies: with an entry array, or without one
Bodies(changeSet) ==
    LET \* body.object: the expected marker, another marker, or none ("")
        Objects == {"whatsapp_business_account", "page", ""}
    IN
    { [object |-> o, hasEntry |-> TRUE, entry |-> es] :
        o \in Objects, es \in EntryLists(changeSet) }
    \cup { [object |-> o, hasEntry |-> FALSE, entry |-> <<>>] : o \in Objects }

\* what an axios call comes to: the promise resolves with a 2xx response
\* (data.success, data.response) or rejects (non-2xx status, network error,
\* timeout)
Resolved(success, response) ==
    [ resolved |-> TRUE, status |-> 200, success |-> success, response |-> response ]

Rejected == [ resolved |-> FALSE, status |-> 0, success |-> FALSE, response |-> Absent ]

\* outcomes of a forward to the downstream
ForwardOutcomes ==
    { Resolved(TRUE, <<"B", "o", "n", "j", "o", "u", "r">>), Resolved(TRUE, Absent), Resolved(FALSE, Absent),
      Rejected }

\* outcomes of a status relay; its response is never read
StatusOutcomes == { Resolved(TRUE, Absent), Rejected }

\* outcomes of a call to the provider's send-message API
SendOutcomes == { Resolved(TRUE, Absent), Rejected }

(***************************************************************************)
(* Outbound calls and what a handler does for one event                    *)
(***************************************************************************)

\* `${x}` in a template literal: undefined is interpolated as "undefined"
interpolate(x) == IF x = Absent THEN lit_undefined ELSE x

\* the server called holds the connection and never answers
NoAnswer == [ resolved |-> FALSE, status |-> 0 - 1, success |-> FALSE, response |-> Absent ]

\* one axios.post. A URL that is not absolute is rejected by axios before
\* anything is sent, whatever the downstream would have answered; with a
\* timeout option (milliseconds, 0 when the call has none) axios rejects a
\* call that is not answered in time, and without one the promise stays
\* pending
Call(kind, url, payload, auth, timeout, outcome) ==
    [ kind |-> kind, url |-> url, payload |-> payload, auth |-> auth,
      timeout |-> timeout, sent |-> isAbsoluteURL(url),
      outcome |-> IF ~isAbsoluteURL(url) THEN Rejected
                  ELSE IF outcome = NoAnswer /\ timeout > 0 THEN Rejected
                  ELSE outcome ]

\* what handling one event did: the calls made in order, whether the forward
\* (or relay) failed, whether the fallback was invoked, the errors logged,
\* whether an exception left the handler, and the chatbot type chosen
Effect(calls, failed, fallback, errors, threw, chatbotType) ==
    [ calls |-> calls, failed |-> failed, fallback |-> fallback, errors |-> errors,
      threw |-> threw, chatbotType |-> chatbotType ]

\* an event the loop passes over without calling anything
Dropped == Effect(<<>>, FALSE, FALSE, <<>>, "none", "none")

responseMessage_education ==
    << "M", "e", "r", "c", "i", " ", "p", "o", "u", "r", " ", "v", "o", "t", "r", "e",
       " ", "m", "e", "s", "s", "a", "g", "e", " ", "c", "o", "n", "c", "e", "r", "n",
       "a", "n", "t", " ", "l", "'", "é", "d", "u", "c", "a", "t", "i", "o", "n", ".",
       " ", "V", "o", "t", "r", "e", " ", "q", "u", "e", "s", "t", "i", "o", "n", " ",
       "a", " ", "é", "t", "é", " ", "r", "e", "ç", "u", "e", " ", "e", "t", " ", "s",
       "e", "r", "a", " ", "t", "r", "a", "i", "t", "é", "e", " ", "p", "a", "r", " ",
       "n", "o", "t", "r", "e", " ", "é", "q", "u", "i", "p", "e", ".", " ", "N", "o",
       "u", "s", " ", "v", "o", "u", "s", " ", "r", "é", "p", "o", "n", "d", "r", "o",
       "n", "s", " ", "d", "è", "s", " ", "q", "u", "e", " ", "p", "o", "s", "s", "i",
       "b", "l", "e", "." >>

responseMessage_quiz ==
    << "M", "e", "r", "c", "i", " ", "p", "o", "u", "r", " ", "v", "o", "t", "r", "e",
       " ", "i", "n", "t", "é", "r", "ê", "t", " ", "p", "o", "u", "r", " ", "n", "o",
       "s", " ", "q", "u", "i", "z", ".", " ", "V", "o", "t", "r", "e", " ", "d", "e",
       "m", "a", "n", "d", "e", " ", "a", " ", "é", "t", "é", " ", "e", "n", "r", "e",
       "g", "i", "s", "t", "r", "é", "e", " ", "e", "t", " ", "s", "e", "r", "a", " ",
       "t", "r", "a", "i", "t", "é", "e", " ", "p", "a", "r", " ", "n", "o", "t", "r",
       "e", " ", "é", "q", "u", "i", "p", "e", ".", " ", "N", "o", "u", "s", " ", "v",
       "o", "u", "s", " ", "r", "é", "p", "o", "n", "d", "r", "o", "n", "s", " ", "d",
       "è", "s", " ", "q", "u", "e", " ", "p", "o", "s", "s", "i", "b", "l", "e", "." >>

responseMessage_default ==
    << "M", "e", "r", "c", "i", " ", "p", "o", "u", "r", " ", "v", "o", "t", "r", "e",
       " ", "m", "e", "s", "s", "a", "g", "e", " ", "a", "u", " ", "s", "e", "r", "v",
       "i", "c", "e", " ", "c", "l", "i", "e", "n", "t", ".", " ", "V", "o", "t", "r",
       "e", " ", "d", "e", "m", "a", "n", "d", "e", " ", "a", " ", "é", "t", "é", " ",
       "e", "n", "r", "e", "g", "i", "s", "t", "r", "é", "e", " ", "e", "t", " ", "s",
       "e", "r", "a", " ", "t", "r", "a", "i", "t", "é", "e", " ", "p", "a", "r", " ",
       "n", "o", "t", "r", "e", " ", "é", "q", "u", "i", "p", "e", ".", " ", "N", "o",
       "u", "s", " ", "v", "o", "u", "s", " ", "r", "é", "p", "o", "n", "d", "r", "o",
       "n", "s", " ", "d", "è", "s", " ", "q", "u", "e", " ", "p", "o", "s", "s", "i",
       "b", "l", "e", "." >>

FALLBACK_MESSAGE ==
    << " ", "M", "e", "r", "c", "i", " ", "p", "o", "u", "r", " ", "v", "o", "t", "r",
       "e", " ", "m", "e", "s", "s", "a", "g", "e", " ", "c", "o", "n", "c", "e", "r",
       "n", "a", "n", "t", " ", "l", "e", " ", "s", "e", "r", "v", "i", "c", "e", " ",
       "c", "l", "i", "e", "n", "t", ".", " ", "V", "o", "t", "r", "e", " ", "d", "e",
       "m", "a", "n", "d", "e", " ", "a", " ", "é", "t", "é", " ", "r", "e", "ç", "u",
       "e", " ", "e", "t", " ", "s", "e", "r", "a", " ", "t", "r", "a", "i", "t", "é",
       "e", " ", "p", "a", "r", " ", "n", "o", "t", "r", "e", " ", "é", "q", "u", "i",
       "p", "e", ".", " ", "N", "o", "u", "s", " ", "r", "e", "v", "i", "e", "n", "d",
       "r", "o", "n", "s", " ", "v", "e", "r", "s", " ", "v", "o", "u", "s", " ", "s",
       "o", "u", "s", " ", "p", "e", "u", "." >>

\* the switch of sendAutoResponse (part_000)
responseMessage(chatbotType) ==
    CASE chatbotType = "education" -> responseMessage_education
      [] chatbotType = "quiz" -> responseMessage_quiz
      [] OTHER -> responseMessage_default

\* the body of a message sent through the provider's send-message API
textMessage(to, text) ==
    [ messaging_product |-> "whatsapp", recipient_type |-> "individual", to |-> to,
      type |-> "text", text |-> [body |-> text] ]

\* sendAutoResponse posting a second time when the provider rejects the first
sendAutoResponseTwice(phoneNumberId, to, chatbotType, e, snd) ==
    IF ~e.META_ACCESS_TOKEN
    THEN [calls |-> <<>>, errors |-> <<"META_ACCESS_TOKEN environment variable is not set">>]
    ELSE LET c == Call("send", lit_graph19 \o interpolate(phoneNumberId) \o lit_messages,
                       textMessage(to, responseMessage(chatbotType)),
                       "META_ACCESS_TOKEN", 0, snd)
         IN  [ calls |-> IF c.outcome.resolved THEN <<c>> ELSE <<c, c>>,
               errors |-> IF c.outcome.resolved THEN <<>>
                          ELSE <<"Error sending auto-response">> ]

\* sendAutoResponse (part_000): <<calls, errors logged>>
sendAutoResponse(phoneNumberId, to, chatbotType, e, snd) ==
    IF ~e.META_ACCESS_TOKEN
    THEN [calls |-> <<>>, errors |-> <<"META_ACCESS_TOKEN environment variable is not set">>]
    ELSE LET c == Call("send", lit_graph19 \o interpolate(phoneNumberId) \o lit_messages,
                       textMessage(to, responseMessage(chatbotType)),
                       "META_ACCESS_TOKEN", 0, snd)
         IN  [ calls |-> <<c>>,
               errors |-> IF c.outcome.resolved THEN <<>>
                          ELSE <<"Error sending auto-response">> ]

\* forwardMessage with a local-development branch that only returns
forwardMessageSilentLocal(chatbotType, messageData, e, fwd, snd) ==
    LET baseUrl == e.BOLT_WEBHOOK_ENDPOINT
        auto == sendAutoResponse(messageData.phoneNumberId, messageData.from,
                                 chatbotType, e, snd)
        instead == Effect(auto.calls, TRUE, TRUE, auto.errors, "none", chatbotType)
    IN  IF baseUrl = Absent THEN instead
        ELSE IF isLocalDevelopmentURL(baseUrl)
        THEN Effect(<<>>, TRUE, FALSE, <<>>, "none", chatbotType)
        ELSE LET endpoint == newURL(lit_apiChatbot \o typeChars(chatbotType), baseUrl)
                 c == Call("forward", endpoint, messageData, "META_ACCESS_TOKEN", 0, fwd)
             IN  IF c.outcome.resolved
                 THEN Effect(<<c>>, FALSE, FALSE, <<>>, "none", chatbotType)
                 ELSE Effect(<<c>> \o auto.calls, TRUE, TRUE,
                             <<"Error forwarding message">> \o auto.errors,
                             "none", chatbotType)

\* forwardMessage of part_000, lines 261-309
forwardMessage(chatbotType, messageData, e, fwd, snd) ==
    LET baseUrl == e.BOLT_WEBHOOK_ENDPOINT
        auto == sendAutoResponse(messageData.phoneNumberId, messageData.from,
                                 chatbotType, e, snd)
        instead == Effect(auto.calls, TRUE, TRUE, auto.errors, "none", chatbotType)
    IN  IF baseUrl = Absent THEN instead
        ELSE IF isLocalDevelopmentURL(baseUrl) THEN instead
        ELSE IF ~isAbsoluteURL(baseUrl)
        THEN Effect(auto.calls, TRUE, TRUE, <<"Error forwarding message">> \o auto.errors,
                    "none", chatbotType)
        ELSE LET endpoint == newURL(lit_apiChatbot \o typeChars(chatbotType), baseUrl)
                 c == Call("forward", endpoint, messageData, "META_ACCESS_TOKEN", 0, fwd)
             IN  IF c.outcome.resolved
                 THEN Effect(<<c>>, FALSE, FALSE, <<>>, "none", chatbotType)
                 ELSE Effect(<<c>> \o auto.calls, TRUE, TRUE,
                             <<"Error forwarding message">> \o auto.errors,
                             "none", chatbotType)

\* forwardMessage of part_000, lines 674-706: every failure is thrown again
forwardMessageB(chatbotType, messageData, e, fwd) ==
    LET baseUrl == e.BOLT_WEBHOOK_ENDPOINT
        thrown == Effect(<<>>, TRUE, FALSE, <<"Error forwarding message to chatbot">>,
                         "forward", chatbotType)
    IN  IF baseUrl = Absent THEN thrown
        ELSE IF ~isAbsoluteURL(baseUrl) THEN thrown
        ELSE LET endpoint == newURL(lit_apiChatbot \o typeChars(chatbotType), baseUrl)
                 c == Call("forward", endpoint, messageData, "none", 0, fwd)
             IN  IF c.outcome.resolved
                 THEN Effect(<<c>>, FALSE, FALSE, <<>>, "none", chatbotType)
                 ELSE [thrown EXCEPT !.calls = <<c>>]

\* the forwardMessage of the server the variant is
forwardOf(v, chatbotType, messageData, e, fwd, snd) ==
    IF v = "indexA" THEN forwardMessage(chatbotType, messageData, e, fwd, snd)
    ELSE forwardMessageB(chatbotType, messageData, e, fwd)

\* a message loop body that routes documents by their MIME type
messageLoopBodyByMimeType(v, message, phoneNumberId, e, fwd, snd) ==
    IF message.type = "text" /\ message.hasText
    THEN forwardOf(v, determineChatbotType(message.body),
                   [ phoneNumberId |-> phoneNumberId, from |-> message.from,
                     text |-> message.body, messageId |-> message.id,
                     timestamp |-> message.timestamp ], e, fwd, snd)
    ELSE IF message.type \in {"image", "video", "document"}
    THEN IF ~message.hasMedia
         THEN Effect(<<>>, FALSE, FALSE, <<>>, "parse", "none")
         ELSE forwardOf(v, IF message.mimeType = "application/pdf" THEN "client"
                           ELSE "education",
                        [ phoneNumberId |-> phoneNumberId, from |-> message.from,
                          mediaType |-> message.type, mediaId |-> message.mediaId,
                          mimeType |-> message.mimeType, messageId |-> message.id,
                          timestamp |-> message.timestamp ], e, fwd, snd)
    ELSE Dropped

\* the body of the message loop of app.post('/webhook') in part_000
\* (lines 137-179 and 563-605)
messageLoopBody(v, message, phoneNumberId, e, fwd, snd) ==
    IF message.type = "text" /\ message.hasText
    THEN forwardOf(v, determineChatbotType(message.body),
                   [ phoneNumberId |-> phoneNumberId, from |-> message.from,
                     text |-> message.body, messageId |-> message.id,
                     timestamp |-> message.timestamp ], e, fwd, snd)
    ELSE IF message.type \in {"image", "video", "document"}
    THEN IF ~message.hasMedia
         THEN Effect(<<>>, FALSE, FALSE, <<>>, "parse", "none")
         ELSE forwardOf(v, "education",
                        [ phoneNumberId |-> phoneNumberId, from |-> message.from,
                          mediaType |-> message.type, mediaId |-> message.mediaId,
                          mimeType |-> message.mimeType, messageId |-> message.id,
                          timestamp |-> message.timestamp ], e, fwd, snd)
    ELSE Dropped

\* handleStatusUpdate of part_000, lines 202-254
handleStatusUpdate(phoneNumberId, status, e, out) ==
    LET baseUrl == e.BOLT_WEBHOOK_ENDPOINT IN
    IF baseUrl = Absent THEN Effect(<<>>, TRUE, FALSE, <<>>, "none", "none")
    ELSE IF isLocalDevelopmentURL(baseUrl) THEN Effect(<<>>, TRUE, FALSE, <<>>, "none", "none")
    ELSE LET c == Call("status", baseUrl,
                       [ type |-> "status_update", phoneNumberId |-> phoneNumberId,
                         messageId |-> status.id, recipientId |-> status.recipient_id,
                         status |-> status.status, timestamp |-> status.timestamp ],
                       "none", 0, out)
         IN  IF c.outcome.resolved THEN Effect(<<c>>, FALSE, FALSE, <<>>, "none", "none")
             ELSE Effect(<<c>>, TRUE, FALSE, <<"Error handling status update">>,
                         "none", "none")

\* handleStatusUpdate of part_000, lines 628-667
handleStatusUpdateB(phoneNumberId, status, e, out) ==
    LET baseUrl == e.BOLT_WEBHOOK_ENDPOINT IN
    IF baseUrl = Absent \/ ~isAbsoluteURL(baseUrl)
    THEN Effect(<<>>, TRUE, FALSE, <<"Error handling status update">>, "none", "none")
    ELSE LET c == Call("status", newURL(lit_apiWhatsappStatus, baseUrl),
                       [ phoneNumberId |-> phoneNumberId, messageId |-> status.id,
                         recipientId |-> status.recipient_id, status |-> status.status,
                         timestamp |-> status.timestamp ],
                       "none", 0, out)
         IN  IF c.outcome.resolved THEN Effect(<<c>>, FALSE, FALSE, <<>>, "none", "none")
             ELSE Effect(<<c>>, TRUE, FALSE, <<"Error handling status update">>,
                         "none", "none")

\* the provider's limit on a message body
MaxMessageLength == 4096

\* String.prototype.trim, for the space character
RECURSIVE trimStart(_)
trimStart(s) == IF s # <<>> /\ Head(s) = " " THEN trimStart(Tail(s)) ELSE s

RECURSIVE trimEnd(_)
trimEnd(s) ==
    IF s # <<>> /\ s[Len(s)] = " " THEN trimEnd(SubSeq(s, 1, Len(s) - 1)) ELSE s

trim(s) == trimEnd(trimStart(s))

\* a status relay that answers the recipient when the relay fails
statusRelayWithReply(status, e, out) ==
    LET c == Call("status", interpolate(e.BOLT_WEBHOOK_ENDPOINT) \o lit_fnStatus,
                  [ messageId |-> status.id, status |-> status.status,
                    timestamp |-> status.timestamp, recipientId |-> status.recipient_id ],
                  "SUPABASE_ANON_KEY", 10000, out)
        r == Call("send", lit_graph18 \o interpolate(e.META_PHONE_NUMBER_ID) \o lit_messages,
                  textMessage(status.recipient_id, FALLBACK_MESSAGE),
                  "META_ACCESS_TOKEN", 10000, Resolved(TRUE, Absent))
    IN  IF c.outcome.resolved THEN Effect(<<c>>, FALSE, FALSE, <<>>, "none", "none")
        ELSE Effect(<<c, r>>, TRUE, TRUE, <<"Error forwarding status updates">>,
                    "none", "none")

\* the status relay of app.post('/webhook') in part_001 (lines 90-105 and
\* 428-443): the loop body, one status
statusRelay(status, e, out) ==
    LET c == Call("status", interpolate(e.BOLT_WEBHOOK_ENDPOINT) \o lit_fnStatus,
                  [ messageId |-> status.id, status |-> status.status,
                    timestamp |-> status.timestamp, recipientId |-> status.recipient_id ],
                  "SUPABASE_ANON_KEY", 10000, out)
    IN  IF c.outcome.resolved THEN Effect(<<c>>, FALSE, FALSE, <<>>, "none", "none")
        ELSE Effect(<<c>>, TRUE, FALSE, <<"Error forwarding status updates">>,
                    "none", "none")

\* processIncomingMessage answering the sender itself when the forward fails
processIncomingMessageWithReply(message, phoneNumberId, e, fwd) ==
    IF ~(message.hasText /\ message.body # <<>>) THEN Dropped
    ELSE LET edgeFunctionPayload ==
                 [ phoneNumber |-> message.from, phoneNumberId |-> phoneNumberId,
                   source |-> "whatsapp", text |-> message.body,
                   chatbotType |-> "client", timestamp |-> message.timestamp ]
             c == Call("forward", interpolate(e.BOLT_WEBHOOK_ENDPOINT) \o lit_fnChatbot,
                       edgeFunctionPayload, "SUPABASE_ANON_KEY", 30000, fwd)
             r == Call("send", lit_graph18 \o interpolate(phoneNumberId) \o lit_messages,
                       textMessage(message.from, FALLBACK_MESSAGE),
                       "META_ACCESS_TOKEN", 15000, Resolved(TRUE, Absent))
         IN  IF c.outcome.resolved /\ c.outcome.status = 200 /\ c.outcome.success
             THEN Effect(<<c>>, FALSE, FALSE, <<>>, "none", "client")
             ELSE Effect(<<c, r>>, TRUE, TRUE, <<"Failed to forward to Edge Function">>,
                         "none", "client")

\* processIncomingMessage of part_001, lines 157-264 (autonomous)
processIncomingMessage(message, phoneNumberId, e, fwd) ==
    IF ~(message.hasText /\ message.body # <<>>) THEN Dropped
    ELSE LET edgeFunctionPayload ==
                 [ phoneNumber |-> message.from, phoneNumberId |-> phoneNumberId,
                   source |-> "whatsapp", text |-> message.body,
                   chatbotType |-> "client", timestamp |-> message.timestamp ]
             c == Call("forward", interpolate(e.BOLT_WEBHOOK_ENDPOINT) \o lit_fnChatbot,
                       edgeFunctionPayload, "SUPABASE_ANON_KEY", 30000, fwd)
         IN  IF c.outcome.resolved
             THEN IF c.outcome.status = 200 /\ c.outcome.success
                  THEN Effect(<<c>>, FALSE, FALSE, <<>>, "none", "client")
                  ELSE Effect(<<c>>, TRUE, FALSE, <<"Edge Function returned error">>,
                              "none", "client")
             ELSE Effect(<<c>>, TRUE, FALSE, <<"Failed to forward to Edge Function">>,
                         "none", "client")

\* sendBotResponseToWhatsApp cutting at the limit and then adding the marker
sendBotResponseToWhatsAppCutAtLimit(phoneNumber, botMessage, e, snd) ==
    IF ~e.META_ACCESS_TOKEN \/ e.META_PHONE_NUMBER_ID = Absent
    THEN [calls |-> <<>>, errors |-> <<"WhatsApp API credentials not configured">>]
    ELSE LET trimmed == trim(botMessage)
             sanitizedMessage ==
                 IF Len(trimmed) > MaxMessageLength
                 THEN SubSeq(trimmed, 1, MaxMessageLength) \o <<".", ".", ".">>
                 ELSE trimmed
             c == Call("send", lit_graph18 \o e.META_PHONE_NUMBER_ID \o lit_messages,
                       textMessage(phoneNumber, sanitizedMessage),
                       "META_ACCESS_TOKEN", 15000, snd)
         IN  IF Len(trimmed) = 0
             THEN [calls |-> <<>>, errors |-> <<"Bot message is empty after sanitization">>]
             ELSE [ calls |-> <<c>>,
                    errors |-> IF c.outcome.resolved /\ c.outcome.status = 200 THEN <<>>
                               ELSE <<"Error sending bot response to WhatsApp">> ]

\* sendBotResponseToWhatsApp of part_001, lines 626-702
sendBotResponseToWhatsApp(phoneNumber, botMessage, e, snd) ==
    IF ~e.META_ACCESS_TOKEN \/ e.META_PHONE_NUMBER_ID = Absent
    THEN [calls |-> <<>>, errors |-> <<"WhatsApp API credentials not configured">>]
    ELSE LET trimmed == trim(botMessage)
             sanitizedMessage ==
                 IF Len(trimmed) > MaxMessageLength
                 THEN SubSeq(trimmed, 1, MaxMessageLength - 3) \o <<".", ".", ".">>
                 ELSE trimmed
             c == Call("send", lit_graph18 \o e.META_PHONE_NUMBER_ID \o lit_messages,
                       textMessage(phoneNumber, sanitizedMessage),
                       "META_ACCESS_TOKEN", 15000, snd)
         IN  IF Len(trimmed) = 0
             THEN [calls |-> <<>>, errors |-> <<"Bot message is empty after sanitization">>]
             ELSE [ calls |-> <<c>>,
                    errors |-> IF c.outcome.resolved /\ c.outcome.status = 200 THEN <<>>
                               ELSE <<"Error sending bot response to WhatsApp">> ]

\* sendFallbackMessage of part_001, lines 705-751
sendFallbackMessage(phoneNumber, e, snd) ==
    IF ~e.META_ACCESS_TOKEN \/ e.META_PHONE_NUMBER_ID = Absent
    THEN [calls |-> <<>>, errors |-> <<"WhatsApp API credentials not configured">>]
    ELSE LET c == Call("send", lit_graph18 \o e.META_PHONE_NUMBER_ID \o lit_messages,
                       textMessage(phoneNumber, FALLBACK_MESSAGE),
                       "META_ACCESS_TOKEN", 15000, snd)
         IN  [ calls |-> <<c>>,
               errors |-> IF c.outcome.resolved /\ c.outcome.status = 200 THEN <<>>
                          ELSE <<"Error sending fallback message">> ]

\* a member `response` of the downstream's answer that is not a string (an
\* object, a number): truthy, and without a trim method
NotAString == << "[object Object]" >>

\* processIncomingMessage relaying whatever reply a 2xx answer holds
processIncomingMessageDRelayAny(message, e, fwd, snd) ==
    IF ~(message.hasText /\ message.body # <<>>) THEN Dropped
    ELSE LET edgeFunctionPayload ==
                 [ phoneNumber |-> message.from, source |-> "whatsapp",
                   text |-> message.body, chatbotType |-> "client",
                   timestamp |-> message.timestamp ]
             c == Call("forward", interpolate(e.BOLT_WEBHOOK_ENDPOINT) \o lit_fnChatbot,
                       edgeFunctionPayload, "SUPABASE_ANON_KEY", 30000, fwd)
             edgeFunctionResponse == c.outcome
             bot == sendBotResponseToWhatsApp(message.from, edgeFunctionResponse.response,
                                              e, snd)
             fb == sendFallbackMessage(message.from, e, snd)
         IN  IF c.outcome.resolved /\ edgeFunctionResponse.response # Absent
             THEN IF edgeFunctionResponse.response = NotAString
                  THEN Effect(<<c>> \o fb.calls, TRUE, TRUE,
                              <<"Failed to forward to Edge Function">> \o fb.errors,
                              "none", "client")
                  ELSE IF trim(edgeFunctionResponse.response) # <<>>
                  THEN Effect(<<c>> \o bot.calls, FALSE, FALSE, bot.errors, "none", "client")
                  ELSE Effect(<<c>>, FALSE, FALSE, <<>>, "none", "client")
             ELSE Effect(<<c>> \o fb.calls, TRUE, TRUE,
                         ( IF c.outcome.resolved
                           THEN <<"Edge Function returned error",
                                  "Failed to forward to Edge Function">>
                           ELSE <<"Failed to forward to Edge Function">> ) \o fb.errors,
                         "none", "client")

\* processIncomingMessage sending the fallback when the relayed send fails
processIncomingMessageDFallbackAfterSend(message, e, fwd, snd) ==
    IF ~(message.hasText /\ message.body # <<>>) THEN Dropped
    ELSE LET edgeFunctionPayload ==
                 [ phoneNumber |-> message.from, source |-> "whatsapp",
                   text |-> message.body, chatbotType |-> "client",
                   timestamp |-> message.timestamp ]
             c == Call("forward", interpolate(e.BOLT_WEBHOOK_ENDPOINT) \o lit_fnChatbot,
                       edgeFunctionPayload, "SUPABASE_ANON_KEY", 30000, fwd)
             edgeFunctionResponse == c.outcome
             bot == sendBotResponseToWhatsApp(message.from, edgeFunctionResponse.response,
                                              e, snd)
             fb == sendFallbackMessage(message.from, e, snd)
         IN  IF c.outcome.resolved /\ c.outcome.status = 200 /\ edgeFunctionResponse.success
             THEN IF edgeFunctionResponse.response = NotAString
                  THEN Effect(<<c>> \o fb.calls, TRUE, TRUE,
                              <<"Failed to forward to Edge Function">> \o fb.errors,
                              "none", "client")
                  ELSE IF trim(edgeFunctionResponse.response) # <<>>
                  THEN Effect(<<c>> \o bot.calls \o (IF bot.errors # <<>> THEN fb.calls ELSE <<>>),
                              FALSE, bot.errors # <<>>, bot.errors, "none", "client")
                  ELSE Effect(<<c>>, FALSE, FALSE, <<>>, "none", "client")
             ELSE Effect(<<c>> \o fb.calls, TRUE, TRUE,
                         ( IF c.outcome.resolved
                           THEN <<"Edge Function returned error",
                                  "Failed to forward to Edge Function">>
                           ELSE <<"Failed to forward to Edge Function">> ) \o fb.errors,
                         "none", "client")

\* processIncomingMessage of part_001, lines 486-623 (fixed fallback); a
\* truthy `response` that is not a string throws at `.trim()` inside the
\* inner try, which the inner catch handles as a failed forward
processIncomingMessageD(message, e, fwd, snd) ==
    IF ~(message.hasText /\ message.body # <<>>) THEN Dropped
    ELSE LET edgeFunctionPayload ==
                 [ phoneNumber |-> message.from, source |-> "whatsapp",
                   text |-> message.body, chatbotType |-> "client",
                   timestamp |-> message.timestamp ]
             c == Call("forward", interpolate(e.BOLT_WEBHOOK_ENDPOINT) \o lit_fnChatbot,
                       edgeFunctionPayload, "SUPABASE_ANON_KEY", 30000, fwd)
             edgeFunctionResponse == c.outcome
             bot == sendBotResponseToWhatsApp(message.from, edgeFunctionResponse.response,
                                              e, snd)
             fb == sendFallbackMessage(message.from, e, snd)
         IN  IF c.outcome.resolved /\ c.outcome.status = 200 /\ edgeFunctionResponse.success
             THEN IF edgeFunctionResponse.response = NotAString
                  THEN Effect(<<c>> \o fb.calls, TRUE, TRUE,
                              <<"Failed to forward to Edge Function">> \o fb.errors,
                              "none", "client")
                  ELSE IF trim(edgeFunctionResponse.response) # <<>>
                  THEN Effect(<<c>> \o bot.calls, FALSE, FALSE, bot.errors, "none", "client")
                  ELSE Effect(<<c>>, FALSE, FALSE, <<>>, "none", "client")
             ELSE Effect(<<c>> \o fb.calls, TRUE, TRUE,
                         ( IF c.outcome.resolved
                           THEN <<"Edge Function returned error",
                                  "Failed to forward to Edge Function">>
                           ELSE <<"Failed to forward to Edge Function">> ) \o fb.errors,
                         "none", "client")

\* BOLT_WEBHOOK_ENDPOINT of webhook.ts: a placeholder host when the variable
\* is unset or empty
BOLT_WEBHOOK_ENDPOINT_W(e) ==
    IF e.BOLT_WEBHOOK_ENDPOINT = Absent THEN lit_defaultBolt ELSE e.BOLT_WEBHOOK_ENDPOINT

\* a status relay routed like a message, to the default category's endpoint
processStatusUpdateByCategory(status, e, out) ==
    LET c == Call("status",
                  BOLT_WEBHOOK_ENDPOINT_W(e) \o lit_apiWebhook \o typeChars("customer-service"),
                  [ messageId |-> status.id, status |-> status.status,
                    timestamp |-> status.timestamp, recipientId |-> status.recipient_id ],
                  "none", 10000, out)
    IN  IF c.outcome.resolved THEN Effect(<<c>>, FALSE, FALSE, <<>>, "none", "none")
        ELSE Effect(<<c>>, TRUE, FALSE, <<"Failed to forward status update">>,
                    "none", "none")

\* the loop body of processStatusUpdates (webhook.ts), one status
processStatusUpdate(status, e, out) ==
    LET c == Call("status", BOLT_WEBHOOK_ENDPOINT_W(e) \o lit_apiWebhookStatus,
                  [ messageId |-> status.id, status |-> status.status,
                    timestamp |-> status.timestamp, recipientId |-> status.recipient_id ],
                  "none", 10000, out)
    IN  IF c.outcome.resolved THEN Effect(<<c>>, FALSE, FALSE, <<>>, "none", "none")
        ELSE Effect(<<c>>, TRUE, FALSE, <<"Failed to forward status update">>,
                    "none", "none")

\* processMessage with one retry of a rejected forward
processMessageRetry(message, phoneNumberId, e, fwd) ==
    LET chatbotType == determineChatbotTypeW(message)
        messagePayload ==
            [ messageId |-> message.id, from |-> message.from,
              timestamp |-> message.timestamp, type |-> message.type,
              phoneNumberId |-> phoneNumberId, chatbotType |-> chatbotType,
              content |-> extractMessageContent(message) ]
        endpoint == BOLT_WEBHOOK_ENDPOINT_W(e) \o lit_apiWebhook \o typeChars(chatbotType)
        c == Call("forward", endpoint, messagePayload, "none", 30000, fwd)
    IN  IF c.outcome.resolved THEN Effect(<<c>>, FALSE, FALSE, <<>>, "none", chatbotType)
        ELSE Effect(<<c, c>>, TRUE, TRUE, <<"Failed to forward message to Bolt app">>,
                    "none", chatbotType)

\* processMessage of webhook.ts; processFallbackMessage only logs
processMessage(message, phoneNumberId, e, fwd) ==
    LET chatbotType == determineChatbotTypeW(message)
        messagePayload ==
            [ messageId |-> message.id, from |-> message.from,
              timestamp |-> message.timestamp, type |-> message.type,
              phoneNumberId |-> phoneNumberId, chatbotType |-> chatbotType,
              content |-> extractMessageContent(message) ]
        endpoint == BOLT_WEBHOOK_ENDPOINT_W(e) \o lit_apiWebhook \o typeChars(chatbotType)
        c == Call("forward", endpoint, messagePayload, "none", 30000, fwd)
    IN  IF c.outcome.resolved THEN Effect(<<c>>, FALSE, FALSE, <<>>, "none", chatbotType)
        ELSE Effect(<<c>>, TRUE, TRUE, <<"Failed to forward message to Bolt app">>,
                    "none", chatbotType)

(***************************************************************************)
(* State: one POST /webhook request and its handling                       *)
(***************************************************************************)
VARIABLES
    variant,    \* which server source handles the request
    env,        \* process.env, read-only once the server has started
    body,       \* req.body
    pc,         \* "received", "change", "statuses", "messages", "respond", "done";
                \* "awaiting" at a call that is never settled
    ei,         \* index of the entry the loop is in
    ci,         \* index of the change the loop is in
    k,          \* index of the next status or message of that change
    log,        \* per event handled, in order: its position and its Effect
    errs,       \* console.error / logError calls, in order
    responses,  \* status codes sent on res, in order
    thrown,     \* what threw into the catch of app.post: "none", "parse", "forward"
    inflight    \* the other requests in flight, each with its body and its handling

vars == <<variant, env, body, pc, ei, ci, k, log, errs, responses, thrown, inflight>>

theChange == body.entry[ei][ci]

isIndex == variant \in {"indexA", "indexB"}
isEdge == variant \in {"autonomous", "fallback"}

\* where the loops stand once exhausted arrays, changes and entries are
\* passed over; part_001 reads entry[0].changes[0] only
RECURSIVE Settle(_, _, _, _)
Settle(p, e, c, i) ==
    CASE p = "statuses" ->
            IF i <= Len(body.entry[e][c].statuses)
            THEN [pc |-> p, ei |-> e, ci |-> c, k |-> i]
            ELSE IF isEdge THEN [pc |-> "respond", ei |-> e, ci |-> c, k |-> i]
            ELSE IF isIndex THEN Settle("messages", e, c, 1)
            ELSE Settle("change", e, c + 1, 1)
      [] p = "messages" ->
            IF i <= Len(body.entry[e][c].messages)
            THEN [pc |-> p, ei |-> e, ci |-> c, k |-> i]
            ELSE IF isEdge THEN [pc |-> "respond", ei |-> e, ci |-> c, k |-> i]
            ELSE Settle("change", e, c + 1, 1)
      [] OTHER ->
            IF e > Len(body.entry) THEN [pc |-> "respond", ei |-> e, ci |-> 1, k |-> 1]
            ELSE IF c > Len(body.entry[e]) THEN Settle("change", e + 1, 1, 1)
            ELSE [pc |-> "change", ei |-> e, ci |-> c, k |-> 1]

Goto(pos) == pc' = pos.pc /\ ei' = pos.ei /\ ci' = pos.ci /\ k' = pos.k

\* a response that is not followed by a return: the acknowledgement after
\* the loops is sent as well
SendAndFallThrough(code) == responses' = responses \o <<code, 200>> /\ pc' = "done"

\* res.status(code) in the try block
Send(code) == responses' = Append(responses, code) /\ pc' = "done"

\* the catch of app.post('/webhook'): log, then 500
Catch(cause, logged) ==
    /\ errs' = errs \o logged \o <<[ei |-> ei, ci |-> ci, what |-> "Error processing webhook"]>>
    /\ responses' = Append(responses, 500)
    /\ thrown' = cause
    /\ pc' = "done"

At(e, c, whats) == [i \in 1..Len(whats) |-> [ei |-> e, ci |-> c, what |-> whats[i]]]

Init ==
    LET \* the Changes of the requests: a text message, two messages of another
        \* tenant (text, then image), two statuses, a Change without phone_number_id,
        \* and a Change of the field webhook.ts reads statuses from
        Changes ==
            { Change("messages", tenant1, FALSE, <<>>, TRUE, <<msgQuiz>>),
              Change("messages", tenant2, FALSE, <<>>, TRUE, <<msgHello, msgImage>>),
              Change("messages", tenant1, TRUE, <<stDelivered, stFailed>>, FALSE, <<>>),
              Change("messages", Absent, TRUE, <<stFailed>>, TRUE, <<msgQuiz>>),
              Change("message_status_updates", tenant2, TRUE, <<stDelivered>>, FALSE, <<>>) }
    IN
    /\ variant \in Variants
    /\ env \in Envs(variant)
    /\ body \in Bodies(Changes)
    /\ pc = "received"
    /\ ei = 1 /\ ci = 1 /\ k = 1
    /\ log = <<>>
    /\ errs = <<>>
    /\ responses = <<>>
    /\ thrown = "none"
    /\ inflight = <<>>

\* a looser marker check: any marker at all is accepted
isWhatsAppEventAnyMarker(b) == b.object # ""

\* the marker check of part_000
isWhatsAppEvent(b) == b.object = "whatsapp_business_account"

\* app.post('/webhook') acknowledging first and handling the events afterwards
PostWebhookAckFirst ==
    /\ pc = "received"
    /\ responses' = Append(responses, 200)
    /\ errs' = errs
    /\ UNCHANGED <<variant, env, inflight, body, log, thrown>>
    /\ LET first == body.entry[1][1] IN
       IF ~body.hasEntry \/ body.entry = <<>> \/ body.entry[1] = <<>>
       THEN Goto([pc |-> "done", ei |-> 1, ci |-> 1, k |-> 1])
       ELSE IF ~isEdge THEN Goto(Settle("change", 1, 1, 1))
       ELSE IF first.hasStatuses THEN Goto(Settle("statuses", 1, 1, 1))
       ELSE Goto(Settle("messages", 1, 1, 1))

\* app.post('/webhook') up to its loops
PostWebhook ==
    /\ pc = "received"
    /\ UNCHANGED <<variant, env, inflight, body, log, thrown>>
    /\ CASE isIndex ->
              IF isWhatsAppEvent(body)
              THEN Goto(Settle("change", 1, 1, 1)) /\ UNCHANGED <<errs, responses>>
              ELSE Send(404) /\ UNCHANGED <<errs, ei, ci, k>>
         [] variant = "webhook" ->
              IF ~body.hasEntry
              THEN /\ Send(400)
                   /\ errs' = Append(errs, [ei |-> 0, ci |-> 0,
                                            what |-> "Invalid webhook payload"])
                   /\ UNCHANGED <<ei, ci, k>>
              ELSE Goto(Settle("change", 1, 1, 1)) /\ UNCHANGED <<errs, responses>>
         [] OTHER ->
              LET hasFirst == /\ Len(body.entry) >= 1
                              /\ Len(body.entry[1]) >= 1
                              /\ body.entry[1][1].hasValue
                  first == body.entry[1][1]
              IN  IF hasFirst /\ first.hasStatuses
                  THEN Goto(Settle("statuses", 1, 1, 1)) /\ UNCHANGED <<errs, responses>>
                  ELSE IF hasFirst /\ first.hasMessages
                  THEN IF variant = "autonomous" /\ first.phone_number_id = Absent
                       THEN /\ Goto([pc |-> "respond", ei |-> 1, ci |-> 1, k |-> 1])
                            /\ errs' = Append(errs, [ei |-> 1, ci |-> 1,
                                   what |-> "phone_number_id not found in webhook metadata"])
                            /\ UNCHANGED responses
                       ELSE Goto(Settle("messages", 1, 1, 1)) /\ UNCHANGED <<errs, responses>>
                  ELSE /\ Goto([pc |-> "respond", ei |-> 1, ci |-> 1, k |-> 1])
                       /\ UNCHANGED <<errs, responses>>

\* the loop of part_000 and webhook.ts reaches a Change
EnterChange ==
    /\ pc = "change"
    /\ UNCHANGED <<variant, env, inflight, body, log>>
    /\ IF isIndex
       THEN IF theChange.field # "messages"
            THEN Goto(Settle("change", ei, ci + 1, 1)) /\ UNCHANGED <<errs, responses, thrown>>
            ELSE IF ~theChange.hasValue
            THEN Catch("parse", <<>>) /\ UNCHANGED <<ei, ci, k>>
            ELSE IF theChange.phone_number_id = Absent
            THEN /\ errs' = Append(errs, [ei |-> ei, ci |-> ci,
                                   what |-> "Missing phone_number_id in webhook payload"])
                 /\ Goto(Settle("change", ei, ci + 1, 1))
                 /\ UNCHANGED <<responses, thrown>>
            ELSE /\ Goto(IF theChange.hasStatuses THEN Settle("statuses", ei, ci, 1)
                         ELSE Settle("messages", ei, ci, 1))
                 /\ UNCHANGED <<errs, responses, thrown>>
       ELSE /\ UNCHANGED <<responses, thrown>>
            /\ CASE theChange.field = "messages" ->
                      IF ~theChange.hasValue
                      THEN /\ errs' = Append(errs, [ei |-> ei, ci |-> ci,
                                                    what |-> "Error processing messages"])
                           /\ Goto(Settle("change", ei, ci + 1, 1))
                      ELSE /\ UNCHANGED errs
                           /\ Goto(IF theChange.hasMessages THEN Settle("messages", ei, ci, 1)
                                   ELSE Settle("change", ei, ci + 1, 1))
                 [] theChange.field = "message_status_updates" ->
                      IF ~theChange.hasValue
                      THEN /\ errs' = Append(errs, [ei |-> ei, ci |-> ci,
                                              what |-> "Error processing status updates"])
                           /\ Goto(Settle("change", ei, ci + 1, 1))
                      ELSE /\ UNCHANGED errs
                           /\ Goto(IF theChange.hasStatuses THEN Settle("statuses", ei, ci, 1)
                                   ELSE Settle("change", ei, ci + 1, 1))
                 [] OTHER -> UNCHANGED errs /\ Goto(Settle("change", ei, ci + 1, 1))

\* what a variant does when a forward fails: send a reply itself, only log,
\* or neither (the error is thrown on)
FallbackMode(v) ==
    CASE v \in {"indexA", "fallback"} -> "auto-reply"
      [] v \in {"autonomous", "webhook"} -> "log-only"
      [] OTHER -> "none"

\* what the variant does for one status
statusEffect(v, phoneNumberId, status, e, out) ==
    CASE v = "indexA" -> handleStatusUpdate(phoneNumberId, status, e, out)
      [] v = "indexB" -> handleStatusUpdateB(phoneNumberId, status, e, out)
      [] v = "webhook" -> processStatusUpdate(status, e, out)
      [] OTHER -> statusRelay(status, e, out)

\* what the variant does for one message
messageEffect(v, message, phoneNumberId, e, fwd, snd) ==
    CASE v \in {"indexA", "indexB"} -> messageLoopBody(v, message, phoneNumberId, e, fwd, snd)
      [] v = "autonomous" -> processIncomingMessage(message, phoneNumberId, e, fwd)
      [] v = "fallback" -> processIncomingMessageD(message, e, fwd, snd)
      [] OTHER -> processMessage(message, phoneNumberId, e, fwd)

Logged(kind, eff) ==
    [ ei |-> ei, ci |-> ci, kind |-> kind, k |-> k, calls |-> eff.calls,
      failed |-> eff.failed, fallback |-> eff.fallback, threw |-> eff.threw,
      chatbotType |-> eff.chatbotType ]

\* a loop over statuses that starts from the last element
DispatchStatusLastFirst ==
    /\ pc = "statuses"
    /\ UNCHANGED <<variant, env, inflight, body, responses, thrown>>
    /\ \E out \in StatusOutcomes :
          LET eff == statusEffect(variant, theChange.phone_number_id,
                                  theChange.statuses[Len(theChange.statuses) - k + 1],
                                  env, out)
          IN  /\ log' = Append(log, Logged("status", eff))
              /\ errs' = errs \o At(ei, ci, eff.errors)
              /\ IF isEdge /\ eff.failed
                 THEN Goto([pc |-> "respond", ei |-> ei, ci |-> ci, k |-> k + 1])
                 ELSE Goto(Settle("statuses", ei, ci, k + 1))

\* an awaited call of the event is never settled
Unanswered(eff) == \E j \in 1..Len(eff.calls) : eff.calls[j].outcome = NoAnswer

\* what handling the event did up to the first call that is never settled:
\* the calls up to it and the errors logged for the calls before it
UpToUnanswered(eff) ==
    LET j == CHOOSE i \in 1..Len(eff.calls) :
                 /\ eff.calls[i].outcome = NoAnswer
                 /\ \A h \in 1..(i - 1) : eff.calls[h].outcome # NoAnswer
    IN  Effect(SubSeq(eff.calls, 1, j), FALSE, FALSE, SubSeq(eff.errors, 1, j - 1),
               "none", eff.chatbotType)

\* the handler stays at an await whose promise is never settled
Await(kind, eff) ==
    /\ log' = Append(log, Logged(kind, UpToUnanswered(eff)))
    /\ errs' = errs \o At(ei, ci, UpToUnanswered(eff).errors)
    /\ pc' = "awaiting"
    /\ UNCHANGED <<ei, ci, k, responses, thrown>>

\* one iteration of a loop over statuses, the downstream answering with one
\* of the given outcomes
DispatchStatusWith(outcomes) ==
    /\ pc = "statuses"
    /\ UNCHANGED <<variant, env, inflight, body>>
    /\ \E out \in outcomes :
          LET eff == statusEffect(variant, theChange.phone_number_id,
                                  theChange.statuses[k], env, out)
          IN  IF Unanswered(eff) THEN Await("status", eff)
              ELSE /\ log' = Append(log, Logged("status", eff))
                   /\ errs' = errs \o At(ei, ci, eff.errors)
                   /\ UNCHANGED <<responses, thrown>>
                   /\ IF isEdge /\ eff.failed
                      THEN Goto([pc |-> "respond", ei |-> ei, ci |-> ci, k |-> k + 1])
                      ELSE Goto(Settle("statuses", ei, ci, k + 1))

\* one iteration of a loop over statuses
DispatchStatus == DispatchStatusWith(StatusOutcomes)

\* one iteration of a loop over messages, the downstream answering with one
\* of the given outcomes
DispatchMessageWith(outcomes, sends) ==
    /\ pc = "messages"
    /\ UNCHANGED <<variant, env, inflight, body>>
    /\ \E fwd \in outcomes, snd \in sends :
          LET eff == messageEffect(variant, theChange.messages[k],
                                   theChange.phone_number_id, env, fwd, snd)
          IN  IF Unanswered(eff) THEN Await("message", eff)
              ELSE /\ log' = Append(log, Logged("message", eff))
                   /\ IF eff.threw # "none"
                      THEN Catch(eff.threw, At(ei, ci, eff.errors)) /\ UNCHANGED <<ei, ci, k>>
                      ELSE /\ errs' = errs \o At(ei, ci, eff.errors)
                           /\ Goto(Settle("messages", ei, ci, k + 1))
                           /\ UNCHANGED <<responses, thrown>>

\* one iteration of a loop over messages
DispatchMessage == DispatchMessageWith(ForwardOutcomes, SendOutcomes)

\* an acknowledgement sent as 204 No Content
RespondNoContent ==
    /\ pc = "respond"
    /\ Send(204)
    /\ UNCHANGED <<variant, env, inflight, body, ei, ci, k, log, errs, thrown>>

\* the acknowledgement after the loops
Respond ==
    /\ pc = "respond"
    /\ Send(200)
    /\ UNCHANGED <<variant, env, inflight, body, ei, ci, k, log, errs, thrown>>

Next == PostWebhook \/ EnterChange \/ DispatchStatus \/ DispatchMessage \/ Respond

Spec == Init /\ [][Next]_vars

(***************************************************************************)
(* Properties                                                              *)
(***************************************************************************)
TypeOK ==
    /\ variant \in Variants
    /\ pc \in {"received", "change", "statuses", "messages", "respond", "done", "awaiting"}
    /\ thrown \in {"none", "parse", "forward"}
    /\ \A i \in 1..Len(responses) : responses[i] \in {200, 400, 404, 500}

Marker == "whatsapp_business_account"

\* the calls of one kind among those logged for an event
CallsOfKind(entry, kind) == {j \in 1..Len(entry.calls) : entry.calls[j].kind = kind}

\* the calls to the downstream (forward or status relay) logged for an event
DownstreamCalls(entry) == CallsOfKind(entry, "forward") \cup CallsOfKind(entry, "status")

\* the Change, and the status or message, an entry of the log is about
ChangeOf(entry) == body.entry[entry.ei][entry.ci]
MessageOf(entry) == ChangeOf(entry).messages[entry.k]
StatusOf(entry) == ChangeOf(entry).statuses[entry.k]

\* a message the variant hands to its forwarder (not one its loop passes over)
Forwarded(entry) == entry.kind = "message" /\ entry.chatbotType # "none"

endsWith(s, suffix) ==
    /\ Len(suffix) <= Len(s)
    /\ \A j \in 1..Len(suffix) : s[Len(s) - Len(suffix) + j] = suffix[j]

\* the handler stands at a step it can take: before its first test, at a
\* Change, status or message that exists, or at its acknowledgement
Pending ==
    \/ pc \in {"received", "respond"}
    \/ /\ pc \in {"change", "statuses", "messages"}
       /\ ei \in 1..Len(body.entry)
       /\ ci \in 1..Len(body.entry[ei])
       /\ pc = "statuses" => k \in 1..Len(theChange.statuses)
       /\ pc = "messages" => k \in 1..Len(theChange.messages)

C2_ForwardFailureNever500 ==
    (pc = "done" /\ body.object = Marker /\ body.hasEntry)
        => (responses = <<200>> \/ thrown = "parse")

\* C3: a failure while dispatching one event does not stop the later events:
\* after an event that failed the loops stand where they stand after an event
\* that succeeded, at the next status or message in source order.
C3_FailureDoesNotStopLaterEvents ==
    [][ (Len(log') = Len(log) + 1 /\ log'[Len(log')].failed)
            => LET nxt == Settle(pc, ei, ci, k + 1)
               IN  pc' = nxt.pc /\ ei' = nxt.ei /\ ci' = nxt.ci /\ k' = nxt.k ]_vars

C5_NoTenantNoCalls ==
    /\ \A i \in 1..Len(log) :
          ChangeOf(log[i]).phone_number_id = Absent =>
              \A j \in 1..Len(log[i].calls) : ~log[i].calls[j].sent
    /\ (pc = "done" /\ responses = <<200>>) =>
          \A e \in 1..Len(body.entry) : \A c \in 1..Len(body.entry[e]) :
              ( /\ body.entry[e][c].field = "messages"
                /\ body.entry[e][c].phone_number_id = Absent
                /\ ((e = 1 /\ c = 1) \/ ~isEdge) )
              => Cardinality({j \in 1..Len(errs) : errs[j].ei = e /\ errs[j].ci = c}) = 1

\* the forward of a message failed: it was skipped (endpoint unset or local),
\* the call was rejected (non-2xx status, network error, timeout) or, where
\* the variant reads the success flag, the response did not carry it
ForwardFailed(entry) ==
    /\ Forwarded(entry)
    /\ \/ CallsOfKind(entry, "forward") = {}
       \/ \E j \in CallsOfKind(entry, "forward") :
             \/ ~entry.calls[j].outcome.resolved
             \/ variant = "fallback" /\ ~entry.calls[j].outcome.success

\* C6: in auto-reply mode every failed forward of a message is followed by
\* the fallback responder for that message: it is invoked and, the send
\* credential being set, posts one reply to the provider's send-message API.
C6_FailedForwardInvokesFallback ==
    FallbackMode(variant) = "auto-reply" =>
        \A i \in 1..Len(log) :
            ForwardFailed(log[i]) =>
                /\ log[i].fallback
                /\ env.META_ACCESS_TOKEN => Cardinality(CallsOfKind(log[i], "send")) = 1

\* C6 witness: in auto-reply mode a forward call has failed and a fallback
\* reply was sent for that message.
C6_Witness ==
    /\ FallbackMode(variant) = "auto-reply"
    /\ env.META_ACCESS_TOKEN
    /\ \E i \in 1..Len(log) :
          /\ ForwardFailed(log[i])
          /\ CallsOfKind(log[i], "forward") # {}
          /\ CallsOfKind(log[i], "send") # {}

C8_UnsetEndpointNoCall ==
    env.BOLT_WEBHOOK_ENDPOINT = Absent =>
        \A i \in 1..Len(log) :
            Forwarded(log[i]) =>
                /\ \A j \in CallsOfKind(log[i], "forward") : ~log[i].calls[j].sent
                /\ log[i].failed
                /\ FallbackMode(variant) = "auto-reply" => log[i].fallback

\* what handling the event of a log entry does when the base endpoint is unset
UnsetEffects(entry) ==
    LET unset == [env EXCEPT !.BOLT_WEBHOOK_ENDPOINT = Absent] IN
    IF entry.kind = "status"
    THEN { statusEffect(variant, ChangeOf(entry).phone_number_id, StatusOf(entry),
                        unset, out) : out \in StatusOutcomes }
    ELSE { messageEffect(variant, MessageOf(entry), ChangeOf(entry).phone_number_id,
                         unset, fwd, snd) : fwd \in ForwardOutcomes, snd \in SendOutcomes }

\* C9: with a denylisted (local development) base endpoint every event is
\* handled exactly as with the endpoint unset: the same outbound calls, the
\* same fallback, and the same exception or none, hence the same response.
C9_DenylistedAsUnset ==
    ( /\ env.BOLT_WEBHOOK_ENDPOINT # Absent
      /\ isLocalDevelopmentURL(env.BOLT_WEBHOOK_ENDPOINT) ) =>
        \A i \in 1..Len(log) :
            \E u \in UnsetEffects(log[i]) :
                /\ u.calls = log[i].calls
                /\ u.fallback = log[i].fallback
                /\ u.threw = log[i].threw

\* C10: a text message of a Change with a tenant id, the base endpoint being
\* configured and not denylisted, makes exactly one forward call, to the
\* endpoint of the category the classifier returns for its text, carrying the
\* tenant id of the Change; when no forward of the request fails, the
\* response is 200.
C10_TextForwardedToCategory ==
    ( /\ env.BOLT_WEBHOOK_ENDPOINT # Absent
      /\ ~isLocalDevelopmentURL(env.BOLT_WEBHOOK_ENDPOINT) ) =>
        /\ \A i \in 1..Len(log) :
              ( /\ log[i].kind = "message"
                /\ MessageOf(log[i]).type = "text"
                /\ MessageOf(log[i]).hasText
                /\ ChangeOf(log[i]).phone_number_id # Absent ) =>
                  /\ Cardinality(CallsOfKind(log[i], "forward")) = 1
                  /\ \A j \in CallsOfKind(log[i], "forward") :
                        /\ \E t \in { determineChatbotType(MessageOf(log[i]).body),
                                      determineChatbotTypeW(MessageOf(log[i])) } :
                              endsWith(log[i].calls[j].url, <<"/">> \o typeChars(t))
                        /\ "phoneNumberId" \in DOMAIN log[i].calls[j].payload
                        /\ log[i].calls[j].payload.phoneNumberId
                              = ChangeOf(log[i]).phone_number_id
        /\ ( /\ pc = "done" /\ body.object = Marker /\ body.hasEntry
             /\ \A i \in 1..Len(log) : ~log[i].failed ) => responses = <<200>>

\* the categories a message can be routed to
Categories == {"client", "education", "quiz", "customer-service"}

\* the URL ends in the path segment of a category
CategoryURL(url) == \E t \in Categories : endsWith(url, <<"/">> \o typeChars(t))

\* the base endpoint is one the variant's status relay posts to
RelayConfigured ==
    CASE variant = "indexA" ->
            /\ env.BOLT_WEBHOOK_ENDPOINT # Absent
            /\ ~isLocalDevelopmentURL(env.BOLT_WEBHOOK_ENDPOINT)
      [] variant = "webhook" -> TRUE
      [] OTHER -> env.BOLT_WEBHOOK_ENDPOINT # Absent

C12_StatusNeverRepliesToUser ==
    \A i \in 1..Len(log) :
        log[i].kind = "status" =>
            /\ CallsOfKind(log[i], "send") = {}
            /\ CallsOfKind(log[i], "forward") = {}
            /\ ~log[i].fallback
            /\ log[i].threw = "none"
            /\ (\E j \in 1..Len(log[i].calls) : ~log[i].calls[j].outcome.resolved) =>
                  /\ Len(log[i].calls) = 1
                  /\ log[i].failed
                  /\ \E n \in 1..Len(errs) :
                        errs[n].ei = log[i].ei /\ errs[n].ci = log[i].ci

\* C12 witness: a request with a status whose relay was sent and rejected
\* has been acknowledged.
C12_Witness ==
    /\ pc = "done"
    /\ responses = <<200>>
    /\ \E i \in 1..Len(log) :
          /\ log[i].kind = "status"
          /\ \E j \in CallsOfKind(log[i], "status") :
                log[i].calls[j].sent /\ ~log[i].calls[j].outcome.resolved

(***************************************************************************)
(* The classifiers on their own: one message, classified twice             *)
(***************************************************************************)

\* words of message texts: quiz keywords (one in capitals, one inside a
\* longer word, one with an accent), education keywords, a keyword of both
\* lists of part_000, a keyword of the client list, and no keyword

Words == { <<"q", "u", "i", "z">>, <<"Q", "U", "I", "Z">>, <<"c", "o", "n", "t", "e", "s", "t">>,
    <<"d", "é", "f", "i">>, <<"h", "o", "m", "e", "w", "o", "r", "k">>,
    <<"É", "t", "u", "d", "i", "e", "r">>, <<"q", "u", "e", "s", "t", "i", "o", "n">>,
    <<"h", "e", "l", "p">>, <<"h", "e", "l", "l", "o">> }

MaxWords == 2

\* the texts of at most n words, a space between two words
RECURSIVE TextsUpTo(_)
TextsUpTo(n) ==
    IF n = 0 THEN { <<>> }
    ELSE TextsUpTo(n - 1)
         \cup Words
         \cup { t \o <<" ">> \o w : t \in TextsUpTo(n - 1) \ { <<>> }, w \in Words }

\* text messages, a text message without its text object, and media messages
\* of every type with and without a caption
ClassifierMessages ==
    { [msgQuiz EXCEPT !.body = t] : t \in TextsUpTo(MaxWords) }
    \cup { [msgQuiz EXCEPT !.hasText = FALSE, !.body = Absent] }
    \cup { [msgImage EXCEPT !.type = ty, !.mediaId = id, !.mimeType = mt, !.caption = cap] :
              ty \in {"image", "video", "document", "audio", "sticker"},
              id \in {"media.1", "media.2"},
              mt \in {"image/jpeg", "application/pdf"},
              cap \in {Absent, txt_myHomework, txt_quizHelp, txt_hello} }

ClassifierInit ==
    /\ variant \in Variants
    /\ env = [ BOLT_WEBHOOK_ENDPOINT |-> url_bolt, META_ACCESS_TOKEN |-> TRUE,
               META_PHONE_NUMBER_ID |-> metaPhoneNumberId ]
    /\ \E m \in ClassifierMessages :
          body = [ object |-> "whatsapp_business_account", hasEntry |-> TRUE,
                   entry |-> << << Change("messages", tenant1, FALSE, <<>>, TRUE, <<m>>) >> >> ]
    /\ pc = "classify"
    /\ ei = 1 /\ ci = 1 /\ k = 1
    /\ log = <<>>
    /\ errs = <<>>
    /\ responses = <<>>
    /\ thrown = "none"
    /\ inflight = <<>>

\* the category the variant chooses for the message, whatever the downstream
\* and the provider answer
Classify ==
    /\ pc = "classify"
    /\ \E fwd \in ForwardOutcomes, snd \in SendOutcomes :
          LET eff == messageEffect(variant, theChange.messages[1],
                                   theChange.phone_number_id, env, fwd, snd)
          IN  log' = Append(log, [ kind |-> "classified", message |-> theChange.messages[1],
                                   chatbotType |-> eff.chatbotType ])
    /\ pc' = IF Len(log) = 0 THEN "classify" ELSE "classified"
    /\ UNCHANGED <<variant, env, inflight, body, ei, ci, k, errs, responses, thrown>>

ClassifierSpec == ClassifierInit /\ [][Classify]_vars

\* the text contains, in any letter case, a keyword of the list
Contains(text, kws) == \E j \in 1..Len(kws) : includes(toLowerCase(text), kws[j])

\* the classifier a variant runs: the one of part_000, the one of webhook.ts,
\* or none (part_001 routes every text as "client")
ClassifierOf(v) ==
    CASE v \in {"indexA", "indexB"} -> "part_000"
      [] v = "webhook" -> "webhook.ts"
      [] OTHER -> "none"

\* the configured keywords, the category tested first and the default
\* category of a classifier
QuizKeywordsOf(cl) == IF cl = "part_000" THEN TRIGGER_KEYWORDS_QUIZ ELSE quizKeywords
EducationKeywordsOf(cl) ==
    IF cl = "part_000" THEN TRIGGER_KEYWORDS_EDUCATION ELSE educationKeywords
FirstTested(cl) == IF cl = "part_000" THEN "education" ELSE "quiz"
DefaultCategory(cl) == IF cl = "part_000" THEN "client" ELSE "customer-service"

\* C13: each classifier is deterministic and obeys its one priority order.
\* A text with a quiz keyword and no education keyword is quiz; a text with
\* an education keyword and no quiz keyword is education; a text with both
\* gets the category the classifier tests first; the empty string and a text
\* with neither get the default category (client, customer-service).
C13_ClassifierPriority ==
    ClassifierOf(variant) # "none" =>
        \A i \in 1..Len(log) :
            ( /\ log[i].kind = "classified"
              /\ log[i].message.type = "text"
              /\ log[i].message.hasText ) =>
                LET cl == ClassifierOf(variant)
                    t == log[i].message.body
                    quiz == Contains(t, QuizKeywordsOf(cl))
                    edu == Contains(t, EducationKeywordsOf(cl))
                    cat == log[i].chatbotType
                IN  /\ (quiz /\ ~edu) => cat = "quiz"
                    /\ (edu /\ ~quiz) => cat = "education"
                    /\ (quiz /\ edu) => cat = FirstTested(cl)
                    /\ (~quiz /\ ~edu) => cat = DefaultCategory(cl)
                    /\ t = <<>> => cat = DefaultCategory(cl)
                    /\ \A i2 \in 1..Len(log) : log[i2].chatbotType = cat

\* C13 witness: a text holding a quiz keyword and an education keyword has
\* been classified twice by the classifier of webhook.ts.
C13_Witness ==
    /\ variant = "webhook"
    /\ pc = "classified"
    /\ Len(log) = 2
    /\ log[1].message.type = "text"
    /\ log[1].message.hasText
    /\ Contains(log[1].message.body, quizKeywords)
    /\ Contains(log[1].message.body, educationKeywords)
    /\ log[1].chatbotType = "quiz"

\* a classified image, video or document
ClassifiedMedia(entry) ==
    /\ entry.kind = "classified"
    /\ entry.message.type \in {"image", "video", "document"}
    /\ entry.message.hasMedia

InSourceOrder(a, b) ==
    \/ a.ei < b.ei
    \/ a.ei = b.ei /\ a.ci < b.ci
    \/ a.ei = b.ei /\ a.ci = b.ci /\ a.kind # b.kind
    \/ a.ei = b.ei /\ a.ci = b.ci /\ a.kind = b.kind /\ a.k < b.k

\* the calls logged for an event carry the id of the element of statuses[]
\* or messages[] at the event's position
CarriesOwnId(entry) ==
    \A j \in 1..Len(entry.calls) :
        ( /\ entry.calls[j].kind \in {"status", "forward"}
          /\ "messageId" \in DOMAIN entry.calls[j].payload ) =>
            entry.calls[j].payload.messageId =
                IF entry.kind = "status" THEN StatusOf(entry).id ELSE MessageOf(entry).id

\* C15: the events of a request are dispatched in source order: within a
\* Change in the array order of statuses[] and of messages[], an earlier
\* Change or Entry before a later one; each dispatch is for the element at
\* its position.
C15_DispatchInSourceOrder ==
    /\ \A i, j \in 1..Len(log) : i < j => InSourceOrder(log[i], log[j])
    /\ \A i \in 1..Len(log) : CarriesOwnId(log[i])

\* C15 witness: two statuses of one Change, then an event of a later Entry,
\* have been dispatched, each with a call that was sent.
C15_Witness ==
    \E i, j, n \in 1..Len(log) :
        /\ i < j /\ j < n
        /\ log[i].ei = log[j].ei /\ log[i].ci = log[j].ci
        /\ log[i].kind = "status" /\ log[j].kind = "status"
        /\ log[i].k = 1 /\ log[j].k = 2
        /\ log[n].ei > log[j].ei
        /\ \A x \in {i, j, n} : \E c \in 1..Len(log[x].calls) : log[x].calls[c].sent

\* the number of times the event at a position was dispatched
TimesDispatched(e, c, kind, n) ==
    Cardinality({ i \in 1..Len(log) :
                    /\ log[i].ei = e /\ log[i].ci = c
                    /\ log[i].kind = kind /\ log[i].k = n })

\* C16: once a valid envelope is acknowledged, every element of statuses[]
\* and of messages[] of every Change (field 'messages', tenant id present) of
\* every Entry has been dispatched exactly once, even when no dispatch failed.
C16_EveryEventDispatchedOnce ==
    ( /\ pc = "done" /\ responses = <<200>>
      /\ body.object = Marker /\ body.hasEntry
      /\ \A i \in 1..Len(log) : ~log[i].failed ) =>
        \A e \in 1..Len(body.entry) : \A c \in 1..Len(body.entry[e]) :
            LET change == body.entry[e][c] IN
            (change.field = "messages" /\ change.phone_number_id # Absent) =>
                /\ \A n \in 1..Len(change.statuses) : TimesDispatched(e, c, "status", n) = 1
                /\ \A n \in 1..Len(change.messages) : TimesDispatched(e, c, "message", n) = 1

\* the canned acknowledgements of a category: the replies of sendAutoResponse
\* and, for the client category, the fixed message of part_001 as well
CannedReplies(category) ==
    CASE category = "quiz" -> {responseMessage_quiz}
      [] category = "education" -> {responseMessage_education}
      [] OTHER -> {responseMessage_default, FALLBACK_MESSAGE}

\* C17: in auto-reply mode the fallback reply for a text message goes to the
\* sender of that message and its body is the canned acknowledgement of the
\* category the classifier gives the text; with the base endpoint unset and
\* the send credential set, no forward call is sent, exactly one send-message
\* call is made, and the request is answered 200.
C17_FallbackReplyMatchesCategory ==
    FallbackMode(variant) = "auto-reply" =>
        /\ \A i \in 1..Len(log) :
              ( /\ log[i].kind = "message" /\ log[i].fallback
                /\ MessageOf(log[i]).type = "text" /\ MessageOf(log[i]).hasText ) =>
                  /\ \A j \in CallsOfKind(log[i], "send") :
                        /\ log[i].calls[j].payload.to = MessageOf(log[i]).from
                        /\ log[i].calls[j].payload.text.body
                              \in CannedReplies(determineChatbotType(MessageOf(log[i]).body))
                  /\ (env.BOLT_WEBHOOK_ENDPOINT = Absent /\ env.META_ACCESS_TOKEN) =>
                        /\ \A j \in CallsOfKind(log[i], "forward") : ~log[i].calls[j].sent
                        /\ Cardinality(CallsOfKind(log[i], "send")) = 1
        /\ (pc = "done" /\ body.hasEntry /\ env.BOLT_WEBHOOK_ENDPOINT = Absent
               /\ (variant = "indexA" => body.object = Marker)) => responses = <<200>>

(***************************************************************************)
(* Replies of the downstream relayed to the sender: one message            *)
(***************************************************************************)

\* how far past the limit the replies of the downstream go
MaxOver == 3

Repeat(ch, n) == [i \in 1..n |-> ch]

ReplyInit ==
    /\ variant \in Variants
    /\ env \in Envs(variant)
    /\ \E m \in {msgQuiz, msgHello, msgImage} :
          body = [ object |-> "whatsapp_business_account", hasEntry |-> TRUE,
                   entry |-> << << Change("messages", tenant1, FALSE, <<>>, TRUE, <<m>>) >> >> ]
    /\ pc = "messages"
    /\ ei = 1 /\ ci = 1 /\ k = 1
    /\ log = <<>>
    /\ errs = <<>>
    /\ responses = <<>>
    /\ thrown = "none"
    /\ inflight = <<>>

\* what the downstream answers: a reply around the limit, padded with spaces
\* or blank, no reply, a reply without the success flag, or a failed call
ReplyOutcomes ==
    LET BotReplies ==
            { Repeat("a", MaxMessageLength + d) : d \in (0 - 1)..MaxOver }
            \cup { <<" ">> \o Repeat("b", MaxMessageLength) \o <<" ", " ">>,
                   <<" ", " ">> \o Repeat("c", MaxMessageLength + 1),
                   Repeat(" ", 3), <<"o", "k">>, <<" ", "o", "k", " ">> }
    IN  { Resolved(TRUE, r) : r \in BotReplies }
        \cup { Resolved(TRUE, Absent), Resolved(FALSE, <<"o", "k">>), Rejected }

\* the iteration of the message loop for the one message
Reply == DispatchMessageWith(ReplyOutcomes, SendOutcomes)

ReplyNext == Reply \/ Respond

ReplySpec == ReplyInit /\ [][ReplyNext]_vars

\* the body of a send-message call
BodyOf(call) == call.payload.text.body

\* C18: every body sent to the provider's send-message API is non-empty and
\* at most 4096 characters long; a reply of the downstream that is longer
\* than 4096 characters once trimmed is cut to its first 4093 characters
\* followed by "...", a shorter one is sent as it is, trimmed.
C18_SentBodyWithinLimit ==
    \A i \in 1..Len(log) : \A j \in CallsOfKind(log[i], "send") :
        /\ Len(BodyOf(log[i].calls[j])) \in 1..MaxMessageLength
        /\ ~log[i].fallback =>
              \E f \in CallsOfKind(log[i], "forward") :
                 LET reply == trim(log[i].calls[f].outcome.response)
                     sent == BodyOf(log[i].calls[j])
                 IN  IF Len(reply) > MaxMessageLength
                     THEN /\ Len(sent) = MaxMessageLength
                          /\ SubSeq(sent, MaxMessageLength - 2, MaxMessageLength)
                                = <<".", ".", ".">>
                          /\ SubSeq(sent, 1, MaxMessageLength - 3)
                                = SubSeq(reply, 1, MaxMessageLength - 3)
                     ELSE sent = reply

\* C18 witness: a reply of more than 4096 characters after trimming has been
\* relayed to the sender.
C18_Witness ==
    \E i \in 1..Len(log) :
        /\ ~log[i].fallback
        /\ \E f \in CallsOfKind(log[i], "forward") :
              Len(trim(log[i].calls[f].outcome.response)) > MaxMessageLength
        /\ \E j \in CallsOfKind(log[i], "send") : log[i].calls[j].sent

(***************************************************************************)
(* Answers of the downstream of every shape, two messages                  *)
(***************************************************************************)

RelayInit ==
    /\ variant \in Variants
    /\ env \in Envs(variant)
    /\ \E ms \in { <<msgQuiz>>, <<msgHello, msgQuiz>>, <<msgImage, msgHello>> } :
          body = [ object |-> "whatsapp_business_account", hasEntry |-> TRUE,
                   entry |-> << << Change("messages", tenant1, FALSE, <<>>, TRUE, ms) >> >> ]
    /\ pc = "messages"
    /\ ei = 1 /\ ci = 1 /\ k = 1
    /\ log = <<>>
    /\ errs = <<>>
    /\ responses = <<>>
    /\ thrown = "none"
    /\ inflight = <<>>

\* the downstream answers 200 with the success flag and a reply, with a
\* reply but no success flag, 201 with flag and reply, with a reply that is
\* not a string, with the flag and no reply, or the call fails
RelayOutcomes ==
    { Resolved(TRUE, <<"o", "k">>), Resolved(FALSE, <<"o", "k">>),
      [Resolved(TRUE, <<"o", "k">>) EXCEPT !.status = 201],
      Resolved(TRUE, NotAString), Resolved(TRUE, Absent), Rejected }

\* one iteration of the message loop
Relay == DispatchMessageWith(RelayOutcomes, SendOutcomes)

RelayNext == Relay \/ Respond

RelaySpec == RelayInit /\ [][RelayNext]_vars

\* the send-message call j of the event carries the reply the downstream
\* gave to a forward of that event
RelaysReplyOf(entry, j, f) ==
    /\ entry.calls[f].outcome.response \notin {Absent, NotAString}
    /\ BodyOf(entry.calls[j]) = trim(entry.calls[f].outcome.response)

\* C36: a reply of the downstream reaches the end user only when the forward
\* succeeded (200) with the success flag set; the reply of an answer without
\* the flag, or of a forward that failed, is never sent.
C36_RelayOnlyOnSuccessFlag ==
    \A i \in 1..Len(log) :
        \A j \in CallsOfKind(log[i], "send") : \A f \in CallsOfKind(log[i], "forward") :
            RelaysReplyOf(log[i], j, f) =>
                /\ log[i].calls[f].sent
                /\ log[i].calls[f].outcome.resolved
                /\ log[i].calls[f].outcome.status = 200
                /\ log[i].calls[f].outcome.success

\* C36 witness: a reply was relayed to the sender of one message, and for
\* another message the downstream gave a reply without the success flag.
C36_Witness ==
    /\ pc = "done"
    /\ \E i \in 1..Len(log) :
          \E j \in CallsOfKind(log[i], "send") : \E f \in CallsOfKind(log[i], "forward") :
              RelaysReplyOf(log[i], j, f) /\ log[i].calls[j].sent
    /\ \E i \in 1..Len(log) : \E f \in CallsOfKind(log[i], "forward") :
          /\ log[i].calls[f].outcome.resolved
          /\ ~log[i].calls[f].outcome.success
          /\ log[i].calls[f].outcome.response # Absent

\* C38: for one inbound message at most one message is sent to the end user
\* through the provider's send-message API, whatever the downstream answers
\* and whether or not the provider accepts the send.
C38_AtMostOneSendPerMessage ==
    \A i \in 1..Len(log) :
        log[i].kind = "message" => Cardinality(CallsOfKind(log[i], "send")) <= 1

\* C38 witness: the provider rejected the send of a relayed reply and nothing
\* else was sent for that message; for another message the reply was not a
\* string and one fallback was sent.
C38_Witness ==
    /\ pc = "done"
    /\ \E i \in 1..Len(log) :
          \E j \in CallsOfKind(log[i], "send") : \E f \in CallsOfKind(log[i], "forward") :
              /\ RelaysReplyOf(log[i], j, f)
              /\ ~log[i].calls[j].outcome.resolved
              /\ Cardinality(CallsOfKind(log[i], "send")) = 1
    /\ \E i \in 1..Len(log) :
          /\ \E f \in CallsOfKind(log[i], "forward") :
                log[i].calls[f].outcome.response = NotAString
          /\ \E j \in CallsOfKind(log[i], "send") :
                BodyOf(log[i].calls[j]) = FALLBACK_MESSAGE

\* the fallback for a message was invoked and did not deliver a reply: the
\* send credential is missing, or the provider rejected the call
FallbackSendFailed(entry) ==
    /\ entry.kind = "message"
    /\ entry.fallback
    /\ \/ CallsOfKind(entry, "send") = {}
       \/ \E j \in CallsOfKind(entry, "send") : ~entry.calls[j].outcome.resolved

\* C19: in auto-reply mode a fallback send that fails is terminal for its
\* event: an error is logged, the send is not repeated, no exception leaves
\* the event, the request is answered 200, and the messages after it in the
\* same array have been dispatched by then.
C19_FallbackFailureIsTerminal ==
    FallbackMode(variant) = "auto-reply" =>
        \A i \in 1..Len(log) :
            FallbackSendFailed(log[i]) =>
                /\ Cardinality(CallsOfKind(log[i], "send")) <= 1
                /\ log[i].threw = "none"
                /\ \E n \in 1..Len(errs) :
                      errs[n].ei = log[i].ei /\ errs[n].ci = log[i].ci
                /\ pc = "done" =>
                      /\ responses = <<200>>
                      /\ \A n \in (log[i].k + 1)..Len(ChangeOf(log[i]).messages) :
                            TimesDispatched(log[i].ei, log[i].ci, "message", n) = 1

\* C19 witness: the provider rejected the fallback send for the first of two
\* messages, the second was dispatched, and the request got its 200.
C19_Witness ==
    /\ FallbackMode(variant) = "auto-reply"
    /\ pc = "done"
    /\ responses = <<200>>
    /\ \E i \in 1..Len(log) :
          /\ FallbackSendFailed(log[i])
          /\ CallsOfKind(log[i], "send") # {}
          /\ log[i].k = 1
          /\ TimesDispatched(log[i].ei, log[i].ci, "message", 2) = 1

\* C20: in log-only mode the handling of a message never calls the
\* provider's send-message API; a forward that fails leaves a logged error
\* and nothing else: no fallback reply, no exception, one forward call.
C20_LogOnlyNeverSends ==
    FallbackMode(variant) = "log-only" =>
        \A i \in 1..Len(log) :
            log[i].kind = "message" =>
                /\ CallsOfKind(log[i], "send") = {}
                /\ log[i].failed =>
                      /\ Len(log[i].calls) = 1
                      /\ log[i].threw = "none"
                      /\ \E n \in 1..Len(errs) :
                            errs[n].ei = log[i].ei /\ errs[n].ci = log[i].ci

\* C20 witness: in log-only mode a forward was sent and rejected, and the
\* request was acknowledged.
C20_Witness ==
    /\ FallbackMode(variant) = "log-only"
    /\ pc = "done"
    /\ responses = <<200>>
    /\ \E i \in 1..Len(log) :
          /\ log[i].kind = "message"
          /\ log[i].failed
          /\ \E j \in CallsOfKind(log[i], "forward") :
                log[i].calls[j].sent /\ ~log[i].calls[j].outcome.resolved

(***************************************************************************)
(* Two POST /webhook requests in flight in one process                     *)
(***************************************************************************)

\* the request whose handler is running, with all its handler holds
Running ==
    [ body |-> body, pc |-> pc, ei |-> ei, ci |-> ci, k |-> k, log |-> log,
      errs |-> errs, responses |-> responses, thrown |-> thrown ]

\* request bodies of one Change of two events each
TwoEventBodies ==
    { [ object |-> "whatsapp_business_account", hasEntry |-> TRUE, entry |-> << <<ch>> >> ] :
        ch \in { Change("messages", tenant1, TRUE, <<stDelivered, stFailed>>, FALSE, <<>>),
                 Change("messages", tenant2, FALSE, <<>>, TRUE, <<msgHello, msgImage>>),
                 Change("messages", tenant1, FALSE, <<>>, TRUE, <<msgQuiz, msgHello>>) } }

\* two requests arrive at one server; process.env is what the server started
\* with
ConcurrentInit ==
    LET \* a request that has arrived and whose handler has not started
        Arrived(b) ==
            [ body |-> b, pc |-> "received", ei |-> 1, ci |-> 1, k |-> 1, log |-> <<>>,
              errs |-> <<>>, responses |-> <<>>, thrown |-> "none" ]
    IN
    /\ variant \in Variants
    /\ env \in Envs(variant)
    /\ body \in TwoEventBodies
    /\ pc = "received"
    /\ ei = 1 /\ ci = 1 /\ k = 1
    /\ log = <<>>
    /\ errs = <<>>
    /\ responses = <<>>
    /\ thrown = "none"
    /\ \E b \in TwoEventBodies : inflight = <<Arrived(b)>>

\* the handler's locals are those of the request r
Resume(r) ==
    /\ body' = r.body /\ pc' = r.pc /\ ei' = r.ei /\ ci' = r.ci /\ k' = r.k
    /\ log' = r.log /\ errs' = r.errs /\ responses' = r.responses /\ thrown' = r.thrown

\* the loop index kept in a variable of the module, which the handlers of all
\* requests share
YieldSharedIndex ==
    /\ inflight # <<>>
    /\ pc \in {"received", "statuses", "messages", "done"}
    /\ Head(inflight).pc # "done"
    /\ Resume([Head(inflight) EXCEPT !.k = k])
    /\ inflight' = <<Running>> \o Tail(inflight)
    /\ UNCHANGED <<variant, env>>

\* the event loop turns to another request: while a handler has not started,
\* awaits an outbound call or has returned, the handler of a request in
\* flight runs, with its own locals
Yield ==
    /\ inflight # <<>>
    /\ pc \in {"received", "statuses", "messages", "done"}
    /\ Head(inflight).pc # "done"
    /\ Resume(Head(inflight))
    /\ inflight' = <<Running>> \o Tail(inflight)
    /\ UNCHANGED <<variant, env>>

ConcurrentNext ==
    PostWebhook \/ EnterChange \/ DispatchStatus \/ DispatchMessage \/ Respond \/ Yield

ConcurrentSpec == ConcurrentInit /\ [][ConcurrentNext]_vars

\* the requests of the process: the running one and those in flight
Requests == {Running} \cup {inflight[i] : i \in 1..Len(inflight)}

\* what the variant does for the event an entry of a request's log is about,
\* when the calls are answered as the entry's own calls were
OwnEffects(r, x) ==
    LET change == r.body.entry[x.ei][x.ci] IN
    IF x.kind = "status"
    THEN { statusEffect(variant, change.phone_number_id, change.statuses[x.k], env, out) :
             out \in StatusOutcomes }
    ELSE { messageEffect(variant, change.messages[x.k], change.phone_number_id, env,
                         fwd, snd) : fwd \in ForwardOutcomes, snd \in SendOutcomes }

\* the log and the response of a request are those its own body, the
\* configuration and the answers to its own calls give
HandledAlone(r) ==
    /\ \A i \in 1..Len(r.log) :
          /\ r.log[i].ei \in 1..Len(r.body.entry)
          /\ r.log[i].ci \in 1..Len(r.body.entry[r.log[i].ei])
          /\ \E eff \in OwnEffects(r, r.log[i]) :
                /\ r.log[i].calls = eff.calls
                /\ r.log[i].failed = eff.failed
                /\ r.log[i].fallback = eff.fallback
                /\ r.log[i].threw = eff.threw
    /\ \A i, j \in 1..Len(r.log) : i < j => InSourceOrder(r.log[i], r.log[j])
    /\ Len(r.responses) <= 1
    /\ (r.pc = "done") <=> (Len(r.responses) = 1)
    /\ r.responses = <<500>> <=> (\E i \in 1..Len(r.log) : r.log[i].threw # "none")
    /\ r.responses \in {<<>>, <<200>>, <<500>>}

\* C21: concurrent POST /webhook requests are independent: under every
\* interleaving of their handlers, the outbound calls and the response of each
\* request are those its own body, the read-only configuration and the
\* answers to its own calls determine, and handling never changes the
\* configuration.
C21_ConcurrentRequestsIndependent ==
    /\ \A r \in Requests : HandledAlone(r)
    /\ env \in Envs(variant)

\* C21 witness: the handlers of two different requests are interleaved: each
\* has dispatched its first event with a call that was sent, and neither has
\* dispatched its second.
C21_Witness ==
    /\ Len(inflight) = 1
    /\ pc \in {"statuses", "messages"} /\ inflight[1].pc \in {"statuses", "messages"}
    /\ Len(log) = 1 /\ Len(inflight[1].log) = 1
    /\ body # inflight[1].body
    /\ \E c \in 1..Len(log[1].calls) : log[1].calls[c].sent
    /\ \E c \in 1..Len(inflight[1].log[1].calls) : inflight[1].log[1].calls[c].sent

(***************************************************************************)
(* A downstream or provider that may never answer                          *)
(***************************************************************************)

TimeoutInit ==
    /\ variant \in Variants
    /\ env \in Envs(variant)
    /\ body \in TwoEventBodies
    /\ pc = "received"
    /\ ei = 1 /\ ci = 1 /\ k = 1
    /\ log = <<>>
    /\ errs = <<>>
    /\ responses = <<>>
    /\ thrown = "none"
    /\ inflight = <<>>

\* one iteration of a loop over statuses; the downstream may never answer
DispatchStatusUnanswered == DispatchStatusWith(StatusOutcomes \cup {NoAnswer})

\* one iteration of a loop over messages; the downstream and the provider may
\* never answer
DispatchMessageUnanswered ==
    DispatchMessageWith(ForwardOutcomes \cup {NoAnswer}, SendOutcomes \cup {NoAnswer})

TimeoutNext ==
    \/ PostWebhook
    \/ EnterChange
    \/ DispatchStatusUnanswered
    \/ DispatchMessageUnanswered
    \/ Respond

TimeoutSpec == TimeoutInit /\ [][TimeoutNext]_vars

\* C22: every outbound call (forward, status relay, fallback send) is made
\* with a timeout of its own, so no call stays unanswered and a handler never
\* stays at an await: handling that has not responded yet stands at a step it
\* can take.
C22_EveryCallTimesOut ==
    /\ \A i \in 1..Len(log) : \A j \in 1..Len(log[i].calls) :
          /\ log[i].calls[j].timeout > 0
          /\ log[i].calls[j].outcome # NoAnswer
    /\ pc # "awaiting"
    /\ pc # "done" => Pending

(***************************************************************************)
(* GET /webhook: the provider's verification handshake                     *)
(***************************************************************************)

lit_subscribe ==
    << "s", "u", "b", "s", "c", "r", "i", "b", "e" >>
lit_placeholderToken ==
    << "y", "o", "u", "r", "_", "v", "e", "r", "i", "f", "i", "c", "a", "t", "i", "o", "n", "_", "t", "o", "k", "e", "n", "_", "h", "e", "r", "e" >>
lit_Forbidden ==
    << "F", "o", "r", "b", "i", "d", "d", "e", "n" >>
lit_BadRequest ==
    << "B", "a", "d", " ", "R", "e", "q", "u", "e", "s", "t" >>
tok_secret ==
    << "s", "3", "c", "r", "e", "t" >>
tok_other ==
    << "g", "u", "e", "s", "s" >>
challenge_1 ==
    << "a", "b", "c" >>

\* res.send(text): a text body; undefined is sent as an empty body
Text(t) == [ type |-> "text", text |-> t ]

\* res.json(value)
Json(j) == [ type |-> "json", json |-> j ]

\* res.sendStatus(code): the status text is the body
sendStatus(code) ==
    [ status |-> code,
      body |-> Text(CASE code = 403 -> lit_Forbidden
                      [] code = 400 -> lit_BadRequest
                      [] OTHER -> Absent) ]

\* the verify token a variant compares with: process.env.VERIFY_TOKEN, and in
\* webhook.ts a placeholder when the variable is unset or empty
VERIFY_TOKEN(v, e) ==
    IF v = "webhook" /\ e.VERIFY_TOKEN = Absent THEN lit_placeholderToken
    ELSE e.VERIFY_TOKEN

\* app.get('/webhook') that does not look at hub.mode
getWebhookTokenOnly(v, e, query) ==
    IF query.mode # Absent /\ query.token # Absent
    THEN IF query.token = VERIFY_TOKEN(v, e)
         THEN [ status |-> 200, body |-> Text(query.challenge) ]
         ELSE sendStatus(403)
    ELSE IF v \in {"indexA", "indexB"}
    THEN [ status |-> 200, body |-> Json([status |-> "ok", message |-> "Webhook is running"]) ]
    ELSE sendStatus(400)

\* app.get('/webhook') that treats missing parameters as a failed verification
getWebhookMissingIsForbidden(v, e, query) ==
    IF query.mode = lit_subscribe /\ query.token # Absent /\ query.token = VERIFY_TOKEN(v, e)
    THEN [ status |-> 200, body |-> Text(query.challenge) ]
    ELSE sendStatus(403)

\* app.get('/webhook'): an absent or empty parameter is falsy; a token that is
\* present never equals an unset VERIFY_TOKEN
getWebhook(v, e, query) ==
    IF query.mode # Absent /\ query.token # Absent
    THEN IF query.mode = lit_subscribe /\ query.token = VERIFY_TOKEN(v, e)
         THEN [ status |-> 200, body |-> Text(query.challenge) ]
         ELSE sendStatus(403)
    ELSE IF v \in {"indexA", "indexB"}
    THEN [ status |-> 200, body |-> Json([status |-> "ok", message |-> "Webhook is running"]) ]
    ELSE sendStatus(400)

VerifyInit ==
    LET \* req.query of GET /webhook
        Queries ==
            [ mode : {Absent, lit_subscribe, <<"u", "n", "s", "u", "b", "s", "c", "r", "i", "b", "e">>},
              token : {Absent, tok_secret, tok_other, lit_placeholderToken},
              challenge : {Absent, challenge_1, <<"1", "1", "5", "8", "2", "0", "1", "4", "4", "4">>} ]
    IN
    /\ variant \in Variants
    /\ env \in [ VERIFY_TOKEN : {Absent, tok_secret} ]
    /\ body \in [ query : Queries ]
    /\ pc = "verify"
    /\ ei = 1 /\ ci = 1 /\ k = 1
    /\ log = <<>>
    /\ errs = <<>>
    /\ responses = <<>>
    /\ thrown = "none"
    /\ inflight = <<>>

\* the handler of GET /webhook answers
GetWebhook ==
    /\ pc = "verify"
    /\ LET res == getWebhook(variant, env, body.query)
       IN  /\ responses' = Append(responses, res.status)
           /\ log' = Append(log, [kind |-> "response", status |-> res.status,
                                  body |-> res.body])
    /\ pc' = "done"
    /\ UNCHANGED <<variant, env, inflight, body, ei, ci, k, errs, thrown>>

VerifySpec == VerifyInit /\ [][GetWebhook]_vars

\* the request is a verification that matches: mode is 'subscribe' and the
\* token is the configured verify token
Verified ==
    /\ body.query.mode = lit_subscribe
    /\ body.query.token # Absent
    /\ body.query.token = VERIFY_TOKEN(variant, env)

\* mode and token are both given
Attempted == body.query.mode # Absent /\ body.query.token # Absent

\* the response echoes the challenge
Echoed(res) ==
    res.status = 200 /\ res.body.type = "text" /\ res.body.text = body.query.challenge

\* C23 as stated: a match is answered 200 with the challenge verbatim; a
\* mismatch is answered 403 with an empty body.
C23_MismatchEmpty403 ==
    pc = "done" =>
        /\ Verified => Echoed(log[1])
        /\ (Attempted /\ ~Verified) =>
              /\ log[1].status = 403
              /\ log[1].body.type = "text" /\ log[1].body.text = <<>>

\* C23: GET /webhook answers 200 with the challenge verbatim when hub.mode
\* is 'subscribe' and hub.verify_token is the configured verify token, and
\* only then; a mismatch of mode or token is answered 403 with the status
\* text as body, never with the challenge.
C23_ChallengeOnlyWhenVerified ==
    pc = "done" =>
        /\ Verified => Echoed(log[1])
        /\ ~Verified =>
              /\ log[1].body.type = "text" => log[1].status # 200
              /\ body.query.challenge # Absent => ~Echoed(log[1])
        /\ (Attempted /\ ~Verified) =>
              /\ responses = <<403>>
              /\ log[1].body = Text(lit_Forbidden)

\* C23 witness: a subscribe request that carries a challenge and a token
\* other than the configured one has been refused.
C23_Witness ==
    /\ pc = "done"
    /\ body.query.mode = lit_subscribe
    /\ body.query.challenge = challenge_1
    /\ env.VERIFY_TOKEN = tok_secret
    /\ body.query.token = tok_other
    /\ responses = <<403>>

\* neither hub.mode nor hub.verify_token is given
Probe == body.query.mode = Absent /\ body.query.token = Absent

\* C24 as stated: GET /webhook without mode and token is answered 200 with a
\* JSON health body.
C24_ProbeAnswered200 ==
    (pc = "done" /\ Probe) => (responses = <<200>> /\ log[1].body.type = "json")

\* C24: GET /webhook without mode and token is never answered as a refused
\* verification (403), whatever the challenge: the servers of part_000 answer
\* 200 with a JSON health body, those of part_001 and webhook.ts answer 400
\* with the status text.
C24_ProbeNeverForbidden ==
    (pc = "done" /\ Probe) =>
        IF variant \in {"indexA", "indexB"}
        THEN /\ responses = <<200>>
             /\ log[1].body = Json([status |-> "ok", message |-> "Webhook is running"])
        ELSE /\ responses = <<400>>
             /\ log[1].body = Text(lit_BadRequest)

\* C24 witness: a server of part_000 has answered a request that has a
\* challenge but neither mode nor token.
C24_Witness ==
    /\ pc = "done" /\ Probe
    /\ body.query.challenge = challenge_1
    /\ variant = "indexA"
    /\ responses = <<200>>

(***************************************************************************)
(* GET /templates/:businessAccountId: proxy to the provider's template API *)
(***************************************************************************)

lit_BearerSp ==
    << "B", "e", "a", "r", "e", "r", " " >>
lit_messageTemplates ==
    << "/", "m", "e", "s", "s", "a", "g", "e", "_", "t", "e", "m", "p", "l", "a", "t", "e", "s" >>

\* the positions of the spaces of a string
Spaces(s) == {i \in 1..Len(s) : s[i] = " "}

\* s.split(' ')[1]: what stands between the first space and the next one;
\* undefined without a space
splitSecond(s) ==
    IF Spaces(s) = {} THEN Absent
    ELSE LET first == CHOOSE i \in Spaces(s) : \A j \in Spaces(s) : i <= j
             later == {i \in Spaces(s) : i > first}
             stop == IF later = {} THEN Len(s) + 1
                     ELSE CHOOSE i \in later : \A j \in later : i <= j
         IN  SubSeq(s, first + 1, stop - 1)

\* s.substring(n)
substring(s, n) == SubSeq(s, n + 1, Len(s))

\* what axios.get comes to: a 2xx answer with data, an answer with an error
\* status and an error body, or no answer at all (network error, timeout)
ProviderAnswer(status, data) == [ answered |-> TRUE, status |-> status, data |-> data ]

ProviderOutcomes ==
    { ProviderAnswer(200, "templates"), ProviderAnswer(400, "invalid-parameter"),
      ProviderAnswer(401, "invalid-oauth-token"), ProviderAnswer(404, "unknown-account"),
      ProviderAnswer(500, "provider-error"),
      [ answered |-> FALSE, status |-> 0, data |-> "none" ] }

\* error.response.statusText
statusText(status) ==
    CASE status = 400 -> "Bad Request"
      [] status = 401 -> "Unauthorized"
      [] status = 404 -> "Not Found"
      [] OTHER -> "Internal Server Error"

\* error.message of an AxiosError
axiosMessage(out) ==
    IF out.answered THEN <<"Request failed with status code", out.status>>
    ELSE <<"Network Error">>

\* the axios.get of the template proxy
TemplateCall(id, accessToken, timeout, out) ==
    [ kind |-> "templates", url |-> lit_graph19 \o id \o lit_messageTemplates,
      auth |-> lit_BearerSp \o accessToken, timeout |-> timeout, outcome |-> out ]

\* what the template handler did: the calls it made, the status and JSON body
\* it answered with (status 0: res was never written), and whether an
\* exception left the handler
TemplateResult(calls, status, json, threw) ==
    [ calls |-> calls, status |-> status, body |-> Json(json), threw |-> threw ]

\* app.get('/templates/:businessAccountId') of part_000; the route matches
\* only with a non-empty id
getTemplates(businessAccountId, authorization, out) ==
    LET accessToken == IF authorization = Absent THEN Absent
                       ELSE splitSecond(authorization)
        c == TemplateCall(businessAccountId, accessToken, 0, out)
    IN  IF accessToken = Absent
        THEN TemplateResult(<<>>, 401, [error |-> "Authorization token required"], FALSE)
        ELSE IF out.answered /\ out.status = 200
        THEN TemplateResult(<<c>>, 200, out.data, FALSE)
        ELSE IF out.answered
        THEN TemplateResult(<<c>>, out.status, [error |-> out.data], FALSE)
        ELSE TemplateResult(<<c>>, 500, [error |-> "Error fetching templates"], FALSE)

\* app.get('/templates/:businessAccountId') of part_001: every failure is
\* answered 500; data.message is not a member of the provider's error body
getTemplatesE(businessAccountId, authorization, out) ==
    LET accessToken == substring(authorization, 7)
        c == TemplateCall(businessAccountId, accessToken, 10000, out)
    IN  IF authorization = Absent \/ ~startsWith(authorization, lit_BearerSp)
        THEN TemplateResult(<<>>, 401, [error |-> "Missing or invalid authorization header"],
                            FALSE)
        ELSE IF out.answered /\ out.status = 200
        THEN TemplateResult(<<c>>, 200, out.data, FALSE)
        ELSE TemplateResult(<<c>>, 500,
                            [ error |-> "Failed to fetch templates",
                              details |-> IF out.answered THEN statusText(out.status)
                                          ELSE "" ], FALSE)

\* app.get('/templates/:businessAccountId') of webhook.ts: the status of the
\* provider's answer with a body of its own; without an answer the status is
\* undefined and res.status(undefined).json throws in the catch block
getTemplatesW(businessAccountId, authorization, out) ==
    LET accessToken == substring(authorization, 7)
        c == TemplateCall(businessAccountId, accessToken, 15000, out)
    IN  IF authorization = Absent \/ ~startsWith(authorization, lit_BearerSp)
        THEN TemplateResult(<<>>, 401, [error |-> "Missing or invalid authorization header"],
                            FALSE)
        ELSE IF out.answered /\ out.status = 200
        THEN TemplateResult(<<c>>, 200, out.data, FALSE)
        ELSE IF out.answered
        THEN TemplateResult(<<c>>, out.status,
                            [ error |-> "Failed to fetch templates",
                              details |-> axiosMessage(out) ], FALSE)
        ELSE TemplateResult(<<c>>, 0, [error |-> "none"], TRUE)

\* the template handler of the server the variant is
templatesOf(v, businessAccountId, authorization, out) ==
    CASE v \in {"indexA", "indexB"} -> getTemplates(businessAccountId, authorization, out)
      [] v \in {"autonomous", "fallback"} ->
            getTemplatesE(businessAccountId, authorization, out)
      [] OTHER -> getTemplatesW(businessAccountId, authorization, out)

TemplatesInit ==
    LET \* the Authorization header: absent, a bearer token, another scheme, the
        \* scheme without a token, a token without a scheme
        Authorizations == {Absent, <<"B", "e", "a", "r", "e", "r", " ", "E", "A", "A", "B", "1", "2", "3">>,
            <<"B", "a", "s", "i", "c", " ", "d", "X", "N", "l", "c", "j", "p", "w", "Y", "X", "N", "z">>,
            <<"B", "e", "a", "r", "e", "r">>, <<"E", "A", "A", "B", "1", "2", "3">>}
    IN
    /\ variant \in Variants
    /\ env \in [ VERIFY_TOKEN : {Absent} ]
    /\ body \in [ businessAccountId : {<<"1", "0", "2", "9", "3", "8", "4", "7", "5", "6">>,
        <<"5", "6", "4", "7", "3", "8", "2", "9", "1", "0">>}, authorization : Authorizations ]
    /\ pc = "templates"
    /\ ei = 1 /\ ci = 1 /\ k = 1
    /\ log = <<>>
    /\ errs = <<>>
    /\ responses = <<>>
    /\ thrown = "none"
    /\ inflight = <<>>

\* the handler of GET /templates/:businessAccountId runs
GetTemplates ==
    /\ pc = "templates"
    /\ \E out \in ProviderOutcomes :
          LET res == templatesOf(variant, body.businessAccountId, body.authorization, out)
          IN  /\ log' = Append(log, [ kind |-> "response", calls |-> res.calls,
                                      status |-> res.status, body |-> res.body ])
              /\ responses' = IF res.threw THEN responses ELSE Append(responses, res.status)
              /\ thrown' = IF res.threw THEN "status" ELSE "none"
    /\ pc' = "done"
    /\ UNCHANGED <<variant, env, inflight, body, ei, ci, k, errs>>

TemplatesSpec == TemplatesInit /\ [][GetTemplates]_vars

\* C25: when the provider answers the template call with an error, the
\* response has the provider's status code and carries the provider's error
\* body; the response is 500 only when the provider's status is 500 or the
\* provider gave no answer.
C25_ProviderErrorMirrored ==
    (pc = "done" /\ log[1].calls # <<>>) =>
        LET out == log[1].calls[1].outcome IN
        /\ (out.answered /\ out.status # 200) =>
              /\ responses = <<out.status>>
              /\ log[1].body.json = [error |-> out.data]
        /\ responses = <<500>> => (~out.answered \/ out.status = 500)

\* a well-formed Authorization header: 'Bearer <token>'
WellFormed(authorization) ==
    /\ authorization # Absent
    /\ startsWith(authorization, lit_BearerSp)
    /\ Len(authorization) > Len(lit_BearerSp)

\* C26: without a well-formed Authorization header GET /templates answers 401
\* and calls the provider not at all.
C26_NoBearerNoCall ==
    (pc = "done" /\ ~WellFormed(body.authorization)) =>
        (responses = <<401>> /\ log[1].calls = <<>>)

\* the payload of a call has one of the members
HasOneOf(payload, members) == \E f \in members : f \in DOMAIN payload

\* the payload names the tenant: a phoneNumberId that is not undefined
NamesTenant(payload) ==
    "phoneNumberId" \in DOMAIN payload /\ payload.phoneNumberId # Absent

\* C27: every payload sent to a downstream endpoint for an event of a Change
\* that has a phone_number_id carries the tenant id, the sender (or recipient)
\* id, the message content or the status fields, and the original timestamp;
\* a forwarded message also carries its routing category, in the payload or
\* in the path of the endpoint.
C27_PayloadHasRequiredFields ==
    \A i \in 1..Len(log) : \A j \in DownstreamCalls(log[i]) :
        LET call == log[i].calls[j] IN
        (call.sent /\ ChangeOf(log[i]).phone_number_id # Absent) =>
            /\ NamesTenant(call.payload)
            /\ HasOneOf(call.payload, {"from", "phoneNumber", "recipientId"})
            /\ HasOneOf(call.payload, {"timestamp"})
            /\ call.kind = "status" =>
                  /\ HasOneOf(call.payload, {"status"})
                  /\ HasOneOf(call.payload, {"messageId"})
            /\ call.kind = "forward" =>
                  /\ HasOneOf(call.payload, {"text", "content", "mediaId"})
                  /\ \/ HasOneOf(call.payload, {"chatbotType"})
                     \/ CategoryURL(call.url)

SchemaInit ==
    LET msgAudio ==
            [ id |-> "wamid.4", from |-> "+221700000000", timestamp |-> "1700000004",
              type |-> "audio", hasText |-> FALSE, body |-> Absent,
              hasMedia |-> TRUE, mediaId |-> "media.2", mimeType |-> "audio/ogg",
              caption |-> Absent ]
        msgSticker ==
            [ id |-> "wamid.5", from |-> "+221123456789", timestamp |-> "1700000005",
              type |-> "sticker", hasText |-> FALSE, body |-> Absent,
              hasMedia |-> TRUE, mediaId |-> "media.3", mimeType |-> "image/webp",
              caption |-> Absent ]
        \* an audio message before a text message, a sticker, a Change of a field no
        \* handler names that holds a status and a message, and a status
        SchemaChanges ==
            { Change("messages", tenant1, FALSE, <<>>, TRUE, <<msgAudio, msgHello>>),
              Change("messages", tenant2, FALSE, <<>>, TRUE, <<msgSticker>>),
              Change("account_update", tenant1, TRUE, <<stDelivered>>, TRUE, <<msgQuiz>>),
              Change("messages", tenant1, TRUE, <<stFailed>>, FALSE, <<>>) }
    IN
    /\ variant \in Variants
    /\ env \in Envs(variant)
    /\ body \in Bodies(SchemaChanges)
    /\ pc = "received"
    /\ ei = 1 /\ ci = 1 /\ k = 1
    /\ log = <<>>
    /\ errs = <<>>
    /\ responses = <<>>
    /\ thrown = "none"
    /\ inflight = <<>>

SchemaSpec == SchemaInit /\ [][Next]_vars

\* the message types no handler has a branch for
Unsupported == {"audio", "sticker"}

\* C29: a message of an unsupported type (audio, unknown) is handed to the
\* forwarder like any other message: once a request is acknowledged with no
\* dispatch failed, each such message of its first Change (field 'messages',
\* tenant id present) has been dispatched and was not passed over.
C29_UnsupportedTypeForwarded ==
    ( /\ pc = "done" /\ responses = <<200>>
      /\ body.object = Marker /\ body.hasEntry
      /\ body.entry # <<>> /\ body.entry[1] # <<>>
      /\ \A i \in 1..Len(log) : ~log[i].failed ) =>
        LET change == body.entry[1][1] IN
        (change.field = "messages" /\ change.phone_number_id # Absent) =>
            \A n \in 1..Len(change.messages) :
                change.messages[n].type \in Unsupported =>
                    \E i \in 1..Len(log) :
                        /\ log[i].ei = 1 /\ log[i].ci = 1
                        /\ log[i].kind = "message" /\ log[i].k = n
                        /\ Forwarded(log[i])

\* the fields a handler names
KnownFields == {"messages", "message_status_updates"}

\* C30: a Change whose field is not the message or status field is skipped
\* silently, whatever its value holds: none of its statuses and messages is
\* dispatched and no error is logged for it.
C30_UnknownFieldSkipped ==
    /\ \A i \in 1..Len(log) : ChangeOf(log[i]).field \in KnownFields
    /\ \A i \in 1..Len(errs) :
          (errs[i].ei \in 1..Len(body.entry) /\ errs[i].ci \in 1..Len(body.entry[errs[i].ei]))
              => body.entry[errs[i].ei][errs[i].ci].field \in KnownFields

C35_DownstreamCallsCarryBearer ==
    \A i \in 1..Len(log) : \A j \in 1..Len(log[i].calls) :
        (log[i].calls[j].kind \in {"forward", "status"} /\ log[i].calls[j].sent) =>
            log[i].calls[j].auth \in {"META_ACCESS_TOKEN", "SUPABASE_ANON_KEY"}

\* the call is sent through the send-message endpoint of the phone number id
SentThrough(call, id) == includes(call.url, <<"/">> \o id \o lit_messages)

\* C39: every forward, status relay and auto-reply made for an event carries
\* the phone_number_id of the Change that held the event: the payload of a
\* forward or relay names that id, and a reply to the end user is sent
\* through that id's send-message endpoint.
C39_CallsCarryTheirChangesTenant ==
    \A i \in 1..Len(log) : \A j \in 1..Len(log[i].calls) :
        LET call == log[i].calls[j]
            id == ChangeOf(log[i]).phone_number_id
        IN  (call.sent /\ id # Absent) =>
                /\ call.kind \in {"forward", "status"} =>
                      NamesTenant(call.payload) /\ call.payload.phoneNumberId = id
                /\ call.kind = "send" => SentThrough(call, id)

(***************************************************************************)
(* Requests with a Change that has no value                                *)
(***************************************************************************)

MalformedInit ==
    LET \* a Change that has a field and nothing else
        NoValue(field) ==
            [ field |-> field, hasValue |-> FALSE, phone_number_id |-> Absent,
              hasStatuses |-> FALSE, statuses |-> <<>>, hasMessages |-> FALSE, messages |-> <<>> ]
        \* a Change without value, a Change whose value has no metadata, a text
        \* message and a status of well-formed Changes
        MalformedChanges ==
            { NoValue("messages"),
              Change("messages", Absent, FALSE, <<>>, TRUE, <<msgQuiz>>),
              Change("messages", tenant1, FALSE, <<>>, TRUE, <<msgHello>>),
              Change("messages", tenant2, TRUE, <<stDelivered>>, FALSE, <<>>) }
    IN
    /\ variant \in Variants
    /\ env \in Envs(variant)
    /\ body \in Bodies(MalformedChanges)
    /\ pc = "received"
    /\ ei = 1 /\ ci = 1 /\ k = 1
    /\ log = <<>>
    /\ errs = <<>>
    /\ responses = <<>>
    /\ thrown = "none"
    /\ inflight = <<>>

MalformedSpec == MalformedInit /\ [][Next]_vars

\* the Change at entry e, index c is malformed: no value, or no tenant id
Malformed(e, c) ==
    ~body.entry[e][c].hasValue \/ body.entry[e][c].phone_number_id = Absent

\* the request holds a malformed Change
HoldsMalformed ==
    \E e \in 1..Len(body.entry) : \E c \in 1..Len(body.entry[e]) : Malformed(e, c)

\* C31: a malformed Change (no value, no metadata) is isolated at the Change:
\* a request with the expected marker that holds one is answered 200 and
\* nothing is thrown, and each of its well-formed Changes of the field
\* 'messages' that holds messages has had a message dispatched.
C31_MalformedChangeIsolated ==
    ( /\ pc = "done" /\ body.object = Marker /\ body.hasEntry
      /\ HoldsMalformed ) =>
        /\ responses = <<200>>
        /\ thrown = "none"
        /\ \A e \in 1..Len(body.entry) : \A c \in 1..Len(body.entry[e]) :
              ( /\ ~Malformed(e, c) /\ body.entry[e][c].field = "messages"
                /\ body.entry[e][c].messages # <<>> ) =>
                      \E i \in 1..Len(log) :
                          log[i].ei = e /\ log[i].ci = c /\ log[i].kind = "message"

(***************************************************************************)
(* One message handed to each server in turn                               *)
(***************************************************************************)

\* the servers in the order the message is handed to them
Sites == << "indexA", "indexB", "autonomous", "fallback", "webhook" >>

CallSitesInit ==
    /\ variant = Sites[1]
    /\ env = [ BOLT_WEBHOOK_ENDPOINT |-> url_bolt, META_ACCESS_TOKEN |-> TRUE,
               META_PHONE_NUMBER_ID |-> metaPhoneNumberId ]
    /\ \E m \in ClassifierMessages :
          body = [ object |-> "whatsapp_business_account", hasEntry |-> TRUE,
                   entry |-> << << Change("messages", tenant1, FALSE, <<>>, TRUE, <<m>>) >> >> ]
    /\ pc = "classify"
    /\ ei = 1 /\ ci = 1 /\ k = 1
    /\ log = <<>>
    /\ errs = <<>>
    /\ responses = <<>>
    /\ thrown = "none"
    /\ inflight = <<>>

\* the category the next server chooses for the message
ClassifyAtSite ==
    /\ pc = "classify"
    /\ \E fwd \in ForwardOutcomes, snd \in SendOutcomes :
          LET eff == messageEffect(variant, theChange.messages[1],
                                   theChange.phone_number_id, env, fwd, snd)
          IN  log' = Append(log, [ kind |-> "classified", site |-> variant,
                                   message |-> theChange.messages[1],
                                   chatbotType |-> eff.chatbotType ])
    /\ IF Len(log) + 1 < Len(Sites)
       THEN variant' = Sites[Len(log) + 2] /\ pc' = pc
       ELSE variant' = variant /\ pc' = "classified"
    /\ UNCHANGED <<env, inflight, body, ei, ci, k, errs, responses, thrown>>

CallSitesSpec == CallSitesInit /\ [][ClassifyAtSite]_vars

\* the default category under either of its two labels
SameCategory(a, b) ==
    \/ a = b
    \/ {a, b} = {"client", "customer-service"}

\* C32: classification is one decision table: the call sites that classify
\* (the classifier of part_000, the classifier of webhook.ts) give one text
\* message the same category, the default category being the same under
\* either of its labels.
C32_OneDecisionTable ==
    \A i \in 1..Len(log) : \A j \in 1..Len(log) :
        ( /\ log[i].kind = "classified" /\ log[j].kind = "classified"
          /\ ClassifierOf(log[i].site) # "none" /\ ClassifierOf(log[j].site) # "none"
          /\ log[i].message.type = "text" /\ log[i].message.hasText ) =>
            SameCategory(log[i].chatbotType, log[j].chatbotType)

(***************************************************************************)
(* One text, classified again after the sender retypes it                  *)
(***************************************************************************)

\* the upper-case form of a character
UpperChar(c) ==
    IF \E i \in 1..Len(Lowers) : Lowers[i] = c
    THEN Uppers[CHOOSE i \in 1..Len(Lowers) : Lowers[i] = c]
    ELSE c

\* the text inside a longer word: letters before and after that complete no
\* keyword
Embedded(s) == <<"z", "z">> \o s \o <<"z", "z">>

\* what the sender may retype a text as
Rewritings(s) ==
    LET \* the text in capitals
        toUpperCase(t) == [i \in 1..Len(t) |-> UpperChar(t[i])]
        \* the text with its first letter in the other case
        Capitalised(t) ==
            IF t = <<>> THEN t
            ELSE << IF UpperChar(t[1]) = t[1] THEN LowerChar(t[1]) ELSE UpperChar(t[1]) >>
                 \o Tail(t)
    IN
    { toLowerCase(s), toUpperCase(s), Capitalised(s), Embedded(s) } \ { s }

\* how many times the text is retyped
MaxRewrites == 2

RewriteInit ==
    /\ variant \in Variants
    /\ env = [ BOLT_WEBHOOK_ENDPOINT |-> url_bolt, META_ACCESS_TOKEN |-> TRUE,
               META_PHONE_NUMBER_ID |-> metaPhoneNumberId ]
    /\ \E t \in TextsUpTo(MaxWords) \ { <<>> } :
          body = [ object |-> "whatsapp_business_account", hasEntry |-> TRUE,
                   entry |-> << << Change("messages", tenant1, FALSE, <<>>, TRUE,
                                          << [msgQuiz EXCEPT !.body = t] >>) >> >> ]
    /\ pc = "classify"
    /\ ei = 1 /\ ci = 1 /\ k = 1
    /\ log = <<>>
    /\ errs = <<>>
    /\ responses = <<>>
    /\ thrown = "none"
    /\ inflight = <<>>

\* the category the variant chooses for the text as it now reads, the
\* forward made with it succeeding or failing
ClassifyText ==
    /\ pc = "classify"
    /\ \E fwd \in {Resolved(TRUE, Absent), Rejected} :
          LET eff == messageEffect(variant, theChange.messages[1],
                                   theChange.phone_number_id, env, fwd,
                                   Resolved(TRUE, Absent))
          IN  log' = Append(log, [ kind |-> "classified", message |-> theChange.messages[1],
                                   chatbotType |-> eff.chatbotType ])
    /\ pc' = IF Len(log) < MaxRewrites THEN "rewrite" ELSE "classified"
    /\ UNCHANGED <<variant, env, inflight, body, ei, ci, k, errs, responses, thrown>>

\* the sender sends the text again, in another letter case or inside a word
Rewrite ==
    /\ pc = "rewrite"
    /\ \E t \in Rewritings(theChange.messages[1].body) :
          body' = [body EXCEPT !.entry[1][1].messages[1].body = t]
    /\ pc' = "classify"
    /\ UNCHANGED <<variant, env, inflight, ei, ci, k, log, errs, responses, thrown>>

RewriteNext == ClassifyText \/ Rewrite

RewriteSpec == RewriteInit /\ [][RewriteNext]_vars

\* C33: keyword matching is case-insensitive and substring-based: a text
\* retyped in another letter case, or placed inside a longer word, keeps the
\* category it had.
C33_CaseAndEmbeddingKeepCategory ==
    \A i \in 1..Len(log) : \A j \in 1..Len(log) :
        (log[i].kind = "classified" /\ log[j].kind = "classified") =>
            log[i].chatbotType = log[j].chatbotType

\* C33 witness: the classifier of part_000 has classified a text holding a
\* quiz keyword as typed, in another letter case and inside a longer word,
\* as quiz each time.
C33_Witness ==
    /\ variant = "indexA"
    /\ pc = "classified"
    /\ Len(log) = 3
    /\ log[1].chatbotType = "quiz"
    /\ log[2].message.body # log[1].message.body
    /\ toLowerCase(log[2].message.body) = toLowerCase(log[1].message.body)
    /\ log[3].message.body = Embedded(log[2].message.body)
    /\ log[3].chatbotType = "quiz"

(***************************************************************************)
(* Base endpoints with a trailing separator or a path prefix               *)
(***************************************************************************)

JoinInit ==
    LET \* process.env.BOLT_WEBHOOK_ENDPOINT: a bare host, the host with a trailing
        \* '/', the host with a path prefix
        JoinBases ==
            { url_bolt, url_bolt \o <<"/">>, url_bolt \o <<"/", "h", "o", "o", "k", "s">> }
        \* a text message, a status of the field part_000 reads, a status of the
        \* field webhook.ts reads
        JoinChanges ==
            { Change("messages", tenant1, FALSE, <<>>, TRUE, <<msgQuiz>>),
              Change("messages", tenant1, TRUE, <<stDelivered>>, FALSE, <<>>),
              Change("message_status_updates", tenant2, TRUE, <<stFailed>>, FALSE, <<>>) }
    IN
    /\ variant \in Variants
    /\ env \in [ BOLT_WEBHOOK_ENDPOINT : JoinBases, META_ACCESS_TOKEN : {TRUE},
                 META_PHONE_NUMBER_ID : {metaPhoneNumberId} ]
    /\ body \in Bodies(JoinChanges)
    /\ pc = "received"
    /\ ei = 1 /\ ci = 1 /\ k = 1
    /\ log = <<>>
    /\ errs = <<>>
    /\ responses = <<>>
    /\ thrown = "none"
    /\ inflight = <<>>

JoinSpec == JoinInit /\ [][Next]_vars

\* the base without the separator it may end with
WithoutTrailingSlash(base) ==
    IF base # <<>> /\ base[Len(base)] = "/" THEN SubSeq(base, 1, Len(base) - 1) ELSE base

\* what follows scheme:// in an absolute URL
AfterScheme(u) ==
    LET s == CHOOSE i \in 2..Len(u) : i + 2 <= Len(u) /\ SubSeq(u, i, i + 2) = lit_schemeSep
    IN  SubSeq(u, s + 3, Len(u))

\* C34: the destination of every forward and status relay is the configured
\* base joined with a path: it begins with the whole base (its path prefix
\* included, the trailing '/' aside), goes on with a path, and holds no
\* doubled separator.
C34_DestinationIsBaseJoinedWithPath ==
    \A i \in 1..Len(log) : \A j \in 1..Len(log[i].calls) :
        LET call == log[i].calls[j]
            base == WithoutTrailingSlash(env.BOLT_WEBHOOK_ENDPOINT)
        IN  (call.kind \in {"forward", "status"} /\ call.sent) =>
                /\ startsWith(call.url, base \o <<"/">>)
                /\ Len(call.url) > Len(base) + 1
                /\ ~includes(AfterScheme(call.url), <<"/", "/">>)

(***************************************************************************)
(* Base endpoints that name a local host outside their host part           *)
(***************************************************************************)

DenylistInit ==
    LET \* process.env.BOLT_WEBHOOK_ENDPOINT: a deployed host, a deployed host whose
        \* path holds the word localhost, and a local host
        DenylistBases ==
            { url_bolt,
              url_bolt \o <<"/", "l", "o", "c", "a", "l", "h", "o", "s", "t", "-", "p", "r", "o", "x", "y">>,
              <<"h", "t", "t", "p", ":", "/", "/", "l", "o", "c", "a", "l", "h", "o", "s", "t", ":", "3", "0", "0", "0">> }
        \* a text message and a status
        DenylistChanges ==
            { Change("messages", tenant1, FALSE, <<>>, TRUE, <<msgQuiz>>),
              Change("messages", tenant2, TRUE, <<stDelivered>>, TRUE, <<msgHello>>) }
    IN
    /\ variant \in Variants
    /\ env \in [ BOLT_WEBHOOK_ENDPOINT : DenylistBases,
                 META_ACCESS_TOKEN : IF variant \in {"indexA", "fallback"} THEN BOOLEAN
                                     ELSE {TRUE},
                 META_PHONE_NUMBER_ID : {metaPhoneNumberId} ]
    /\ body \in Bodies(DenylistChanges)
    /\ pc = "received"
    /\ ei = 1 /\ ci = 1 /\ k = 1
    /\ log = <<>>
    /\ errs = <<>>
    /\ responses = <<>>
    /\ thrown = "none"
    /\ inflight = <<>>

DenylistSpec == DenylistInit /\ [][Next]_vars

\* the host of the base endpoint matches a denylisted pattern
DenylistedHost(base) == isLocalDevelopmentURL(origin(base))

\* C40: the denylist is applied to the host of the base endpoint only: when
\* the host matches no denylisted pattern, every message handed to the
\* forwarder is forwarded over the network, whatever the path of the base
\* holds.
C40_DenylistAppliesToHostOnly ==
    ~DenylistedHost(env.BOLT_WEBHOOK_ENDPOINT) =>
        \A i \in 1..Len(log) :
            Forwarded(log[i]) =>
                \E j \in CallsOfKind(log[i], "forward") : log[i].calls[j].sent

=============================================================================
